---- MODULE Spec2Model ----
(***************************************************************************)
(* Congressional Record speech segmentation and bill linking               *)
(* (src/etl/speeches.py).  Texts are sequences of one-character strings;   *)
(* Python's None is the empty sequence (no value the code stores in an     *)
(* optional field is ever the empty string).                               *)
(***************************************************************************)
EXTENDS Integers, Sequences, FiniteSets, TLC

VARIABLES
    text,        \* the extracted text of the document handed to _parse_speeches
    chamber,     \* Chamber of the document
    speech_date, \* date of the document, [year, month, day]
    hashSeed,    \* the interpreter process's string hash seed (orders set iteration)
    pc,          \* position of the build: "start", "parsed", "built"
    speeches,    \* the list of dicts returned by _parse_speeches
    built,       \* the FloorSpeech values of this run (_speech_dict_to_model)
    prev,        \* the FloorSpeech values of the previous run on the same document
    runs,        \* number of completed builds of the document
    d_text,      \* detect_bill_references: argument text
    d_title,     \* detect_bill_references: argument title (None when absent)
    d_pc,        \* "call" before, "ret" after detect_bill_references
    d_refs,      \* the list detect_bill_references returned
    bills,       \* the rows of table bills (Bill)
    store,       \* the committed rows of table floor_speeches, in insertion order
    bill_ref,    \* lookup_bill_by_reference: argument bill_ref
    l_pc,        \* "call" before, "ret" after lookup_bill_by_reference
    l_result,    \* the Bill lookup_bill_by_reference returned (None when none)
    batch,       \* save_speeches: argument speeches of the last call
    s_pc,        \* "call" before, "ret" after a return, "raised" after a raise of save_speeches
    saved_count, \* the count the last save_speeches returned
    f_env,       \* fetch_speeches_for_date: what the API, the download and fitz answer
    f_pc,        \* "call" before, "ret" after fetch_speeches_for_date
    f_speeches,  \* the list fetch_speeches_for_date returned
    f_log,       \* the log calls of the run, in order
    f_status,    \* how the loop body ended for each chamber
    f_parsed,    \* the chambers _parse_speeches was called for
    votes,       \* the rows of table votes (Vote)
    bill_threads,\* the rows of table bill_threads (BillThread), in insertion order
    digests,     \* the rows of table daily_digests (DailyDigest), in insertion order
    sent,        \* the client.send_post calls Bluesky accepted, in order
    credentials, \* whether config has bluesky_handle and bluesky_password
    p_call,      \* the last call into formatters/bluesky.py and its arguments
    p_result,    \* what that call returned
    p_runs       \* number of calls made so far

vars == <<text, chamber, speech_date, hashSeed, pc, speeches, built, prev, runs,
          d_text, d_title, d_pc, d_refs, bills, store, bill_ref, l_pc, l_result,
          batch, s_pc, saved_count, f_env, f_pc, f_speeches, f_log, f_status,
          f_parsed, votes, bill_threads, digests, sent, credentials, p_call,
          p_result, p_runs>>

None == <<>>

dbVars == <<bills, store>>
lookupVars == <<bill_ref, l_pc, l_result>>
saveVars == <<batch, s_pc, saved_count>>
fetchVars == <<f_env, f_pc, f_speeches, f_log, f_status, f_parsed>>
publishVars == <<votes, bill_threads, digests, sent, credentials, p_call, p_result, p_runs>>
restVars == <<dbVars, lookupVars, saveVars, fetchVars, publishVars>>

\* an empty database
DbEmpty == bills = {} /\ store = <<>>
\* no call of lookup_bill_by_reference
LookupIdle == bill_ref = <<>> /\ l_pc = "idle" /\ l_result = None
\* no call of save_speeches
SaveIdle == batch = <<>> /\ s_pc = "idle" /\ saved_count = 0
\* no call into formatters/bluesky.py
PublishIdle ==
    /\ votes = {} /\ bill_threads = <<>> /\ digests = <<>> /\ sent = <<>>
    /\ credentials = FALSE /\ p_call = <<>> /\ p_result = <<>> /\ p_runs = 0
\* no call of fetch_speeches_for_date
FetchIdle ==
    /\ f_env = <<>>
    /\ f_pc = "idle"
    /\ f_speeches = <<>>
    /\ f_log = <<>>
    /\ f_status = <<>>
    /\ f_parsed = {}

-----------------------------------------------------------------------------
(* Characters and str methods *)

UpperCase == <<"A","B","C","D","E","F","G","H","I","J","K","L","M",
               "N","O","P","Q","R","S","T","U","V","W","X","Y","Z">>
LowerCase == <<"a","b","c","d","e","f","g","h","i","j","k","l","m",
               "n","o","p","q","r","s","t","u","v","w","x","y","z">>
UpperSet == {UpperCase[i] : i \in 1..26}
LowerSet == {LowerCase[i] : i \in 1..26}
LetterSet == UpperSet \cup LowerSet
DigitSet == {"0","1","2","3","4","5","6","7","8","9"}
\* \s and str.strip(): the whitespace characters the inputs use
WhiteSet == {" ", "\t", "\n"}
\* \w
WordSet == LetterSet \cup DigitSet \cup {"_"}

ToUpper == [c \in LowerSet |-> UpperCase[CHOOSE i \in 1..26 : LowerCase[i] = c]]
ToLower == [c \in UpperSet |-> LowerCase[CHOOSE i \in 1..26 : UpperCase[i] = c]]

UpperChar(c) == IF c \in LowerSet THEN ToUpper[c] ELSE c
LowerChar(c) == IF c \in UpperSet THEN ToLower[c] ELSE c

\* str.upper()
StrUpper(s) == [i \in 1..Len(s) |-> UpperChar(s[i])]

IsNotDot(c) == c # "."
IsNotSpace(c) == c # " "

\* s.replace(".", "").replace(" ", ""): the space character only
StripDotsAndSpaces(s) == SelectSeq(SelectSeq(s, IsNotDot), IsNotSpace)

MinOf(S) == CHOOSE x \in S : \A y \in S : x <= y
MaxOf(S) == CHOOSE x \in S : \A y \in S : x >= y

\* s[a:b] of Python for 0 <= a, as the 1-based inclusive range a+1..b
Slice(s, a, b) == SubSeq(s, a + 1, IF b > Len(s) THEN Len(s) ELSE b)

\* number of leading characters of s from position i that are in class cs
RunLen(s, i, cs) ==
    CHOOSE n \in 0..(Len(s) + 1 - i) :
        /\ \A j \in 0..(n - 1) : s[i + j] \in cs
        /\ (i + n > Len(s) \/ s[i + n] \notin cs)

\* str.strip()
StrStrip(s) ==
    LET lead == RunLen(s, 1, WhiteSet)
    IN  IF lead = Len(s) THEN <<>>
        ELSE LET last == CHOOSE j \in lead + 1..Len(s) :
                            /\ s[j] \notin WhiteSet
                            /\ \A m \in j + 1..Len(s) : s[m] \in WhiteSet
             IN  SubSeq(s, lead + 1, last)

\* str.rstrip(), the effect of strip() on a string that starts with a title
StrRStrip(s) ==
    IF \A j \in 1..Len(s) : s[j] \in WhiteSet THEN <<>>
    ELSE LET last == CHOOSE j \in 1..Len(s) :
                        /\ s[j] \notin WhiteSet
                        /\ \A m \in j + 1..Len(s) : s[m] \in WhiteSet
         IN  SubSeq(s, 1, last)

-----------------------------------------------------------------------------
(* Python's re: backtracking match of a pattern given as a sequence of    *)
(* elements.  Match returns <<>> when the pattern from element k does not *)
(* match at position i, and otherwise the positions <<p_k, ..., p_n+1>>,  *)
(* p_j the position where element j started (0 for the elements of an     *)
(* optional group that was skipped) and p_n+1 the end of the match.       *)

Lit(cs) == [k |-> "lit", c |-> cs, min |-> 1, max |-> 1]
\* greedy repetition of a character class, max < 0: unbounded
Rep(cs, lo, hi) == [k |-> "rep", c |-> cs, min |-> lo, max |-> hi]
\* (?: the next m elements )?
OptGroup(m) == [k |-> "optgroup", c |-> {}, min |-> m, max |-> m]
\* \b
WordB == [k |-> "wb", c |-> {}, min |-> 0, max |-> 0]
\* $ under re.MULTILINE
Eol == [k |-> "eol", c |-> {}, min |-> 0, max |-> 0]

\* a run of single characters, c[j] the class of the j-th
Str(cs) == [k |-> "str", c |-> cs, min |-> Len(cs), max |-> Len(cs)]
\* a literal word, case-sensitive
Word(w) == <<Str([j \in 1..Len(w) |-> {w[j]}])>>
\* a literal word under re.IGNORECASE
WordCI(w) == <<Str([j \in 1..Len(w) |-> {UpperChar(w[j]), LowerChar(w[j])}])>>

IsWordAt(s, p) == p >= 1 /\ p <= Len(s) /\ s[p] \in WordSet
\* \b at the position before character p
WordBoundary(s, p) == IsWordAt(s, p - 1) # IsWordAt(s, p)
\* the anchor forgotten
IsLineStart_Anywhere(s, p) == TRUE

\* ^ under re.MULTILINE at the position before character p
IsLineStart(s, p) == p = 1 \/ (p >= 2 /\ p <= Len(s) + 1 /\ s[p - 1] = "\n")
\* $ under re.MULTILINE at the position before character p
IsLineEnd(s, p) == p = Len(s) + 1 \/ (p <= Len(s) /\ s[p] = "\n")

RECURSIVE Match(_, _, _, _, _), MatchRep(_, _, _, _, _, _)
\* T holds the positions where the elements before k started
Match(pat, k, s, i, T) ==
    IF k > Len(pat) THEN Append(T, i)
    ELSE CASE pat[k].k = "lit" ->
             IF i <= Len(s) /\ s[i] \in pat[k].c
             THEN Match(pat, k + 1, s, i + 1, Append(T, i)) ELSE <<>>
        [] pat[k].k = "str" ->
             IF /\ i + pat[k].min - 1 <= Len(s)
                /\ \A j \in 1..pat[k].min : s[i + j - 1] \in pat[k].c[j]
             THEN Match(pat, k + 1, s, i + pat[k].min, Append(T, i)) ELSE <<>>
        [] pat[k].k = "rep" ->
             MatchRep(pat, k, s, i, T,
                      MinOf({RunLen(s, i, pat[k].c)}
                            \cup (IF pat[k].max < 0 THEN {} ELSE {pat[k].max})))
        [] pat[k].k = "optgroup" ->
             LET taken == Match(pat, k + 1, s, i, Append(T, i))
             IN  IF taken # <<>> THEN taken
                 ELSE Match(pat, k + pat[k].min + 1, s, i,
                            Append(T, i) \o [j \in 1..pat[k].min |-> 0])
        [] pat[k].k = "wb" ->
             IF WordBoundary(s, i) THEN Match(pat, k + 1, s, i, Append(T, i)) ELSE <<>>
        [] pat[k].k = "eol" ->
             IF IsLineEnd(s, i) THEN Match(pat, k + 1, s, i, Append(T, i)) ELSE <<>>

\* the greedy repetition pat[k] taking j characters, then fewer on failure
MatchRep(pat, k, s, i, T, j) ==
    IF j < pat[k].min THEN <<>>
    ELSE LET r == Match(pat, k + 1, s, i + j, Append(T, i))
         IN  IF r # <<>> THEN r ELSE MatchRep(pat, k, s, i, T, j - 1)

\* the first of the alternatives of the patterns pats that matches at i:
\* <<>> or <<a, positions>>
FirstAlt(pats, s, i) ==
    LET ok == {a \in 1..Len(pats) : Match(pats[a], 1, s, i, <<>>) # <<>>}
    IN  IF ok = {} THEN <<>>
        ELSE <<MinOf(ok), Match(pats[MinOf(ok)], 1, s, i, <<>>)>>

\* the text of elements a..b of a match with positions T, None when skipped
Group(s, T, a, b) == IF T[a] = 0 THEN None ELSE SubSeq(s, T[a], T[b + 1] - 1)

\* a left-to-right scan from position pos over the matches lo..hi of hits,
\* each search resuming at the previous match's end: <<the matches found,
\* the position where the scan resumes>>.  hits holds the pattern's match at
\* every position where it matches, in increasing order; they are scanned
\* by halves, the second half from where the first one resumes.
RECURSIVE ScanRange(_, _, _, _)
ScanRange(hits, pos, lo, hi) ==
    IF lo > hi THEN <<<<>>, pos>>
    ELSE IF lo = hi
         THEN IF hits[lo][1].start < pos THEN <<<<>>, pos>>
              ELSE <<hits[lo], hits[lo][1].end>>
    ELSE LET L == ScanRange(hits, pos, lo, (lo + hi) \div 2)
             R == ScanRange(hits, L[2], (lo + hi) \div 2 + 1, hi)
         IN  <<L[1] \o R[1], R[2]>>

\* finditer: the matches a left-to-right scan of s returns.  M[i] is the
\* pattern's match at position i, <<>> or <<the match>>
Scan(M, s) ==
    LET IsMatch(m) == m # <<>>
        hits == SelectSeq(M, IsMatch)
    IN  ScanRange(hits, 1, 1, Len(hits))[1]

-----------------------------------------------------------------------------
(* BILL_PATTERN and detect_bill_references *)

OptDot == Rep({"."}, 0, 1)
StarWS == Rep(WhiteSet, 0, -1)
PlusWS == Rep(WhiteSet, 1, -1)

\* the six alternatives of group 1, in the pattern's order
BillAlts == <<
    WordCI(<<"H">>) \o <<OptDot, StarWS>> \o WordCI(<<"R">>) \o <<OptDot>>,
    WordCI(<<"S">>) \o <<OptDot>>,
    WordCI(<<"H">>) \o <<OptDot, StarWS>> \o WordCI(<<"J">>) \o <<OptDot, StarWS>>
        \o WordCI(<<"R","e","s">>) \o <<OptDot>>,
    WordCI(<<"S">>) \o <<OptDot, StarWS>> \o WordCI(<<"J">>) \o <<OptDot, StarWS>>
        \o WordCI(<<"R","e","s">>) \o <<OptDot>>,
    WordCI(<<"H">>) \o <<OptDot, StarWS>> \o WordCI(<<"C","o","n">>) \o <<OptDot, StarWS>>
        \o WordCI(<<"R","e","s">>) \o <<OptDot>>,
    WordCI(<<"S">>) \o <<OptDot, StarWS>> \o WordCI(<<"C","o","n">>) \o <<OptDot, StarWS>>
        \o WordCI(<<"R","e","s">>) \o <<OptDot>> >>

\* \s*(\d+)
BillNumber == <<StarWS, Rep(DigitSet, 1, -1)>>
\* the closing \b forgotten
BillEnd_NoBoundary == <<Rep({}, 0, 0)>>

\* the closing \b
BillEnd == <<WordB>>

\* BILL_PATTERN with alternative a of group 1
BillPattern(a) == <<WordB>> \o BillAlts[a] \o BillNumber \o BillEnd

\* the alternatives of BILL_PATTERN, in the order the engine tries them
BillPatterns == [a \in 1..Len(BillAlts) |-> BillPattern(a)]

\* BILL_PATTERN.match at position i: <<>> or <<the match>>, group 1 in type
\* and group 2 in num (every alternative starts with an H or an S)
BillMatchAt(s, i) ==
    LET r == FirstAlt(BillPatterns, s, i)
    IN  IF s[i] \notin {"H", "h", "S", "s"} \/ r = <<>> THEN <<>>
        ELSE LET n == Len(BillAlts[r[1]])
                 T == r[2]
             IN  <<[start |-> i, end |-> T[n + 5],
                    type |-> Group(s, T, 2, n + 1),
                    num |-> Group(s, T, n + 3, n + 3)]>>

\* BILL_PATTERN.finditer(s)
BillMatches(s) ==
    Scan([i \in 1..Len(s) |-> BillMatchAt(s, i)], s)

\* match.group(1).upper().replace(".", "").replace(" ", ""), then type_map.get
NormalizeType(g) == StripDotsAndSpaces(StrUpper(g))

\* f"{normalized_type}{bill_num}"
BillId(m) == NormalizeType(m.type) \o m.num

\* f"{title or ''} {text}"
SearchText(txt, title) == title \o <<" ">> \o txt

\* the identifiers in the order the loop adds them to bill_refs
DetectedInOrder(txt, title) ==
    LET ms == BillMatches(SearchText(txt, title))
    IN  [j \in 1..Len(ms) |-> BillId(ms[j])]

\* the elements of a sequence, first occurrences only, in order
Distinct(q) ==
    LET IsFirst(j) == \A k \in 1..(j - 1) : q[k] # q[j]
        firsts == SelectSeq([j \in 1..Len(q) |-> j], IsFirst)
    IN  [j \in 1..Len(firsts) |-> q[firsts[j]]]

\* list(bill_refs) of a set of str: the iteration order is that of the hash
\* table, fixed by the process's hash seed and the strings; every element can
\* come first.  Modelled as the rotation by seed of the distinct elements.
ListOfSet(q, seed) ==
    LET n == Len(q)
    IN  [j \in 1..n |-> q[((j - 1 + seed) % n) + 1]]

\* detect_bill_references(text, title) in a process with hash seed `seed`
detect_bill_references(txt, title, seed) ==
    ListOfSet(Distinct(DetectedInOrder(txt, title)), seed)

-----------------------------------------------------------------------------
(* SPEAKER_PATTERN, TOPIC_PATTERN and _parse_speeches *)

MinContentLen == 100
ContentCap == 10000
TurnCap == 50
TopicWindow == 200
TopicMinTail == 10

\* the eight alternatives of group 1, in the pattern's order
TitleAlts == <<
    Word(<<"M","r",".">>),
    Word(<<"M","r","s",".">>),
    Word(<<"M","s",".">>),
    Word(<<"M","i","s","s">>),
    Word(<<"T","h","e">>) \o <<PlusWS>> \o Word(<<"S","P","E","A","K","E","R">>),
    Word(<<"T","h","e">>) \o <<PlusWS>> \o Word(<<"P","R","E","S","I","D","I","N","G">>)
        \o <<PlusWS>> \o Word(<<"O","F","F","I","C","E","R">>),
    Word(<<"T","h","e">>) \o <<PlusWS>> \o Word(<<"A","C","T","I","N","G">>)
        \o <<PlusWS>> \o Word(<<"P","R","E","S","I","D","E","N","T">>),
    Word(<<"T","h","e">>) \o <<PlusWS>> \o Word(<<"V","I","C","E">>)
        \o <<PlusWS>> \o Word(<<"P","R","E","S","I","D","E","N","T">>) >>

\* [A-Z\s\-\']
NameClass == UpperSet \cup WhiteSet \cup {"-", "'"}

\* \s*([A-Z][A-Z\s\-\']+)?(?:\s+of\s+([A-Za-z]+))?[.\s]
SpeakerRest == <<
    StarWS,
    OptGroup(2), Lit(UpperSet), Rep(NameClass, 1, -1),
    OptGroup(5), PlusWS, Lit({"o"}), Lit({"f"}), PlusWS, Rep(LetterSet, 1, -1),
    Lit({"."} \cup WhiteSet) >>

\* SPEAKER_PATTERN with alternative a of group 1 (the leading ^ is IsLineStart)
SpeakerPattern(a) == TitleAlts[a] \o SpeakerRest

\* the alternatives of SPEAKER_PATTERN, in the order the engine tries them
SpeakerPatterns == [a \in 1..Len(TitleAlts) |-> SpeakerPattern(a)]

\* SPEAKER_PATTERN.match at position i: <<>> or <<the match>> with its groups
SpeakerMatchAt(s, i) ==
    IF ~IsLineStart(s, i) THEN <<>>
    ELSE
    LET r == FirstAlt(SpeakerPatterns, s, i)
    IN  IF r = <<>> THEN <<>>
        ELSE LET n == Len(TitleAlts[r[1]])
                 T == r[2]
             IN  <<[start |-> i, end |-> T[n + 12],
                    title |-> Group(s, T, 1, n),
                    name |-> Group(s, T, n + 3, n + 4),
                    state |-> Group(s, T, n + 10, n + 10)]>>

\* list(SPEAKER_PATTERN.finditer(text))
SpeakerMatches(s) ==
    Scan([i \in 1..Len(s) |-> SpeakerMatchAt(s, i)], s)

\* [A-Z\s\-,\.\']
TopicClass == UpperSet \cup WhiteSet \cup {"-", ",", ".", "'"}

\* ([A-Z][A-Z\s\-,\.\']{10,})$
TopicPattern == <<Lit(UpperSet), Rep(TopicClass, TopicMinTail, -1), Eol>>

\* TOPIC_PATTERN.match at position i: <<>> or <<group(1)>>
TopicMatchAt(w, i) ==
    IF ~IsLineStart(w, i) THEN <<>>
    ELSE LET T == Match(TopicPattern, 1, w, i, <<>>)
         IN  IF T = <<>> THEN <<>> ELSE <<[start |-> i, end |-> T[4], topic |-> Group(w, T, 1, 2)]>>

\* TOPIC_PATTERN.search(w): <<>> or <<group(1)>> of the leftmost match
TopicSearch(w) ==
    LET ms == Scan([i \in 1..Len(w) |-> TopicMatchAt(w, i)], w)
    IN  IF ms = <<>> THEN <<>> ELSE <<ms[1].topic>>

\* text[max(0, match.start() - 200):match.start()]
TopicWindowText(s, start) ==
    SubSeq(s, IF start - TopicWindow < 1 THEN 1 ELSE start - TopicWindow, start - 1)

\* topic = None; if topic_match: topic = topic_match.group(1).strip()
TopicOf(s, start) ==
    LET tm == TopicSearch(TopicWindowText(s, start))
    IN  IF tm = <<>> THEN None ELSE StrStrip(tm[1])

\* the state code for the placename
SpeakerName_StateCode(title, name, state) ==
    LET base == StrStrip(title \o <<" ">> \o name)
    IN  IF state # <<>>
        THEN base \o <<" ", "(">> \o StrUpper(Slice(state, 0, 2)) \o <<")">>
        ELSE base

\* speaker_name = f"{title} {name}".strip(); if state: += f" ({state})"
SpeakerName(title, name, state) ==
    LET base == StrStrip(title \o <<" ">> \o name)
    IN  IF state # <<>> THEN base \o <<" ", "(">> \o state \o <<")">> ELSE base

\* state[:2].upper() if state else None
StateCode(state) == IF state # <<>> THEN StrUpper(Slice(state, 0, 2)) ELSE None

\* the next match's start forgotten
ContentOf_UntilEnd(s, ms, i) == StrStrip(SubSeq(s, ms[i].end, Len(s)))

\* content = text[start:end].strip(), end the next match's start or len(text)
ContentOf(s, ms, i) ==
    StrStrip(SubSeq(s, ms[i].end,
                    IF i + 1 <= Len(ms) THEN ms[i + 1].start - 1 ELSE Len(s)))

\* if len(content) < 100: continue
TooShort(content) == Len(content) < MinContentLen

\* the slice forgotten
LimitContent_NoCap(content) == content

\* content[:10000]
LimitContent(content) == Slice(content, 0, ContentCap)

\* > for >=
CapReached_OffByOne(acc) == Len(acc) > TurnCap

\* if len(speeches) >= 50: break
CapReached(acc) == Len(acc) >= TurnCap

\* the dict appended for match i
SpeechDict(s, ms, i, content, ch, dt) ==
    [speaker_name |-> SpeakerName(ms[i].title, ms[i].name, ms[i].state),
     speaker_state |-> StateCode(ms[i].state),
     title |-> TopicOf(s, ms[i].start),
     content |-> LimitContent(content),
     chamber |-> ch,
     speech_date |-> dt]

\* the cap counts the announcements scanned, not the turns appended
ParseLoop_CapCountsDropped(s, ms, ch, dt) ==
    LET Turn(i) == LET content == ContentOf(s, ms, i)
                   IN  IF TooShort(content) THEN None
                       ELSE SpeechDict(s, ms, i, content, ch, dt)
        IsTurn(d) == d # None
        n == IF Len(ms) > TurnCap THEN TurnCap ELSE Len(ms)
    IN  SelectSeq([i \in 1..n |-> Turn(i)], IsTurn)

\* the for loop of _parse_speeches over the matches ms: a match whose content
\* is too short is passed over by continue, every other one appends its dict,
\* and the loop leaves by break after the first append that fills the list
ParseLoop(s, ms, ch, dt) ==
    LET Turn(i) == LET content == ContentOf(s, ms, i)
                   IN  IF TooShort(content) THEN None
                       ELSE SpeechDict(s, ms, i, content, ch, dt)
        IsTurn(d) == d # None
        all == SelectSeq([i \in 1..Len(ms) |-> Turn(i)], IsTurn)
        full == {n \in 1..Len(all) : CapReached(SubSeq(all, 1, n))}
    IN  SubSeq(all, 1, IF full = {} THEN Len(all) ELSE MinOf(full))

_parse_speeches(s, ch, dt) ==
    IF s = <<>> THEN <<>>
    ELSE LET ms == SpeakerMatches(s)
         IN  IF ms = <<>> THEN <<>> ELSE ParseLoop(s, ms, ch, dt)

\* congress=119 if speech_date.year >= 2025 else 118
CongressOf(dt) == IF dt.year >= 2025 THEN 119 ELSE 118

\* bill_refs[0] if bill_refs else None
FirstRef(bill_refs) == IF bill_refs # <<>> THEN bill_refs[1] ELSE None

_speech_dict_to_model(d, seed) ==
    [congress |-> CongressOf(d.speech_date),
     chamber |-> d.chamber,
     speech_date |-> d.speech_date,
     speaker_name |-> d.speaker_name,
     speaker_state |-> d.speaker_state,
     title |-> d.title,
     content |-> d.content,
     related_bill_id |-> FirstRef(detect_bill_references(d.content, d.title, seed))]

-----------------------------------------------------------------------------
(* Inputs *)

MaxSections == 2
MaxSeed == 1
ExtraTurns == 1
MaxGap == 2

RECURSIVE Flatten(_)
Flatten(q) == IF q = <<>> THEN <<>> ELSE Head(q) \o Flatten(Tail(q))

SeqsUpTo(S, n) == UNION {[1..k -> S] : k \in 0..n}

Fill(c, n) == [i \in 1..n |-> c]

\* n copies of u, one after the other
Repeat(u, n) == [j \in 1..(n * Len(u)) |-> u[((j - 1) % Len(u)) + 1]]

HashSeeds == 0..MaxSeed

\* (chamber, target_date) of the documents
DocKeys == {<<"HOUSE", [year |-> 2025, month |-> 1, day |-> 3]>>,
            <<"SENATE", [year |-> 2024, month |-> 12, day |-> 19]>>}

\* lines before an announcement
NoHead == <<>>
OneTopic == <<"F","L","O","O","R"," ","T","O","P","I","C"," ","A","\n">>
TwoTopics == <<"F","I","R","S","T"," ","T","O","P","I","C"," ","X","\n",
               "a","b","\n",
               "O","T","H","E","R"," ","T","O","P","I","C"," ","Y","\n">>
TenChars == <<"T","E","N"," ","L","E","T","T","E","R","\n">>
ElevenChars == <<"E","L","E","V","E","N"," ","C","H","A","R","\n">>
FarTopic == <<"O","L","D"," ","T","O","P","I","C"," ","A","B","C","\n">>
                \o Fill("y", TopicWindow) \o <<"\n">>
NineCharsBlank == <<"N","I","N","E"," ","C","H","A","R","\n","\n">>
Heads == {NoHead, OneTopic, TwoTopics, TenChars, ElevenChars, NineCharsBlank, FarTopic}

\* announcements
MrSmithOfOhio == <<"M","r","."," ","S","M","I","T","H"," ","o","f"," ","O","h","i","o",".">>
MsLee == <<"M","s","."," ","L","E","E",".">>
TheSpeaker == <<"T","h","e"," ","S","P","E","A","K","E","R"," ","p","r","o"," ",
                "t","e","m","p","o","r","e",".">>
MrKimOfO == <<"M","r","."," ","K","I","M"," "," ","o","f"," ","O",".">>
Announcements == {MrSmithOfOhio, MsLee, TheSpeaker, MrKimOfO}

\* what follows an announcement
IYield == <<" ","I"," ","y","i","e","l","d",".">>
CiteHR2988 == <<" ","I"," ","r","i","s","e"," ","f","o","r"," ",
                "H",".","R","."," ","2","9","8","8"," ">>
CiteTwo == <<" ","S","."," ","1"," ","a","n","d"," ","H",".","R","."," ","2"," ">>
Bodies == {IYield,
           <<" ">> \o Fill("x", MinContentLen - 1) \o <<" ">>,
           <<" ">> \o Fill("x", MinContentLen),
           CiteHR2988 \o Fill("x", MinContentLen),
           CiteTwo \o Fill("x", MinContentLen)}
LongBodies == {<<" ">> \o Fill("x", ContentCap - 1) \o <<"\n">>,
               <<" ">> \o Fill("x", ContentCap),
               <<" ">> \o Fill("x", ContentCap + 1)}

Section(h, a, b) == h \o a \o b \o <<"\n">>

AllSections ==
    {Section(h, a, b) : h \in Heads, a \in Announcements, b \in Bodies}
    \cup {Section(OneTopic, MrSmithOfOhio, b) : b \in LongBodies}

\* the sections documents of several sections are made of
MixSections ==
    {Section(NoHead, MrSmithOfOhio, CiteHR2988 \o Fill("x", MinContentLen)),
     Section(OneTopic, MsLee, CiteTwo \o Fill("x", MinContentLen)),
     Section(TwoTopics, TheSpeaker, <<" ">> \o Fill("x", MinContentLen)),
     Section(NoHead, MsLee, IYield),
     Section(NoHead, MrKimOfO, <<" ">> \o Fill("x", MinContentLen - 1))}

\* a turn too short to keep, then one longer than the cap
LongAfterShort ==
    Section(NoHead, MsLee, IYield)
        \o Section(ElevenChars, MrSmithOfOhio, <<" ">> \o Fill("x", ContentCap + 1))

\* documents with more announcements than the cap keeps
ManyTurns ==
    {Repeat(u, k) :
        u \in {Section(NoHead, MsLee, <<" ">> \o Fill("x", MinContentLen)),
               Section(NoHead, MsLee, IYield)
                   \o Section(NoHead, MrSmithOfOhio, <<" ">> \o Fill("x", MinContentLen))},
        k \in {TurnCap - 1, TurnCap} \cup (TurnCap + 1..TurnCap + ExtraTurns)}

\* texts without an announcement
NoAnnouncement ==
    {<<>>,
     <<" "," "," ">>,
     <<"h","e","l","l","o","\n">>,
     OneTopic,
     <<"x"," ">> \o MsLee \o <<" ">> \o Fill("x", MinContentLen),
     <<"M","r",".","S","M","I","T","H","x"," ">> \o Fill("x", MinContentLen),
     <<"M","r"," ">> \o Fill("x", MinContentLen)}

Documents ==
    AllSections
    \cup {Flatten(q) : q \in SeqsUpTo(MixSections, MaxSections)}
    \cup {LongAfterShort}
    \cup ManyTurns
    \cup NoAnnouncement

\* spellings of the six vehicle families: the parts of the type, each
\* followed by an optional period, with whitespace between the parts
Families == {<< <<"H">>, <<"R">> >>,
             << <<"S">> >>,
             << <<"H">>, <<"J">>, <<"R","e","s">> >>,
             << <<"S">>, <<"J">>, <<"R","e","s">> >>,
             << <<"H">>, <<"C","o","n">>, <<"R","e","s">> >>,
             << <<"S">>, <<"C","o","n">>, <<"R","e","s">> >>}

Gaps == SeqsUpTo(WhiteSet, MaxGap)

StrLower(s) == [i \in 1..Len(s) |-> LowerChar(s[i])]

\* the type as the parts, a period after part j when dots[j], gap between parts
Spelling(parts, dots, gap) ==
    Flatten([j \in 1..Len(parts) |->
                parts[j] \o (IF dots[j] THEN <<".">> ELSE <<>>)
                         \o (IF j < Len(parts) THEN gap ELSE <<>>)])

Spellings ==
    UNION {{Spelling(f, dots, gap), StrUpper(Spelling(f, dots, gap)),
            StrLower(Spelling(f, dots, gap))} :
           f \in Families, dots \in [1..3 -> BOOLEAN], gap \in Gaps}

Numbers == {<<"1">>, <<"2","9","8","8">>, <<"0","0","7">>, <<"0">>}

\* one citation and nothing else: a spelling, optional whitespace, a number
SpelledCitations ==
    {sp \o sep \o <<"2","9","8","8">> : sp \in Spellings, sep \in {<<>>, <<" ">>}}

\* a citation in its commonest spelling, with what may follow the digits
NumberTexts ==
    {<<"H",".","R",".">> \o sep \o n \o after :
        sep \in {<<>>, <<" ">>}, n \in Numbers,
        after \in {<<>>, <<",">>, <<"A">>, <<" ","a","c","t">>}}
    \cup {<<"H","R","2","9","8","8","A">>, <<"H","R"," ","2","9","8","8",",">>,
          <<"S","7","b">>, <<"a","s"," ","5"," ","H","R","1","x">>}

\* two citations in one text
TwoCitations ==
    {a \o <<" ","a","n","d"," ">> \o b :
        a \in {<<"S","."," ","1">>, <<"H",".","R","."," ","2">>, <<"S","1">>},
        b \in {<<"S","."," ","1">>, <<"H",".","R","."," ","2">>,
               <<"H",".","J",".","R","e","s","."," ","3">>}}

DetectTitles == {<<"H",".","R",".">>, <<"S">>, <<"S","."," ","4"," ","A","C","T">>}

\* the arguments (text, title) of detect_bill_references
DetectInputs ==
    {<<t, None>> : t \in SpelledCitations \cup NumberTexts \cup TwoCitations \cup {<<>>}}
    \cup {<<t, ti>> : t \in {<<>>, <<"1">>, <<"S","."," ","1">>, <<"7"," ","H","R","2">>},
                     ti \in DetectTitles}

-----------------------------------------------------------------------------
(* The build of one document: _parse_speeches, then _speech_dict_to_model *)
(* for each dict (fetch_speeches_for_date, lines 319-325).                *)

Init ==
    /\ text \in Documents
    /\ \E k \in DocKeys : chamber = k[1] /\ speech_date = k[2]
    /\ hashSeed \in HashSeeds
    \* the documents of many turns start in one chamber and one process
    /\ text \in ManyTurns => (chamber = "HOUSE" /\ hashSeed = 0)
    /\ pc = "start"
    /\ speeches = <<>>
    /\ built = <<>>
    /\ prev = <<>>
    /\ runs = 0
    /\ d_text = <<>>
    /\ d_title = None
    /\ d_pc = "idle"
    /\ d_refs = <<>>
    /\ DbEmpty /\ LookupIdle /\ SaveIdle /\ FetchIdle /\ PublishIdle

detectVars == <<d_text, d_title, d_pc, d_refs>>

\* parsed = self._parse_speeches(text, chamber, target_date)
ParseSpeeches ==
    /\ pc = "start"
    /\ speeches' = _parse_speeches(text, chamber, speech_date)
    /\ pc' = "parsed"
    /\ UNCHANGED <<text, chamber, speech_date, hashSeed, built, prev, runs, detectVars, restVars>>

\* for speech_data in parsed: speeches.append(self._speech_dict_to_model(speech_data))
ConvertSpeeches ==
    /\ pc = "parsed"
    /\ built' = [j \in 1..Len(speeches) |-> _speech_dict_to_model(speeches[j], hashSeed)]
    /\ runs' = runs + 1
    /\ pc' = "built"
    /\ UNCHANGED <<text, chamber, speech_date, hashSeed, speeches, prev, detectVars, restVars>>

\* the same document is built again by the same process
BuildAgain ==
    /\ pc = "built"
    /\ runs < 2
    /\ prev' = built
    /\ built' = <<>>
    /\ speeches' = <<>>
    /\ pc' = "start"
    /\ UNCHANGED <<text, chamber, speech_date, hashSeed, runs, detectVars, restVars>>

\* the same document is built again by a new interpreter process (a later
\* run of the command), whose hash seed is drawn afresh
BuildAgainInNewProcess ==
    /\ pc = "built"
    /\ runs < 2
    /\ hashSeed' \in HashSeeds
    /\ prev' = built
    /\ built' = <<>>
    /\ speeches' = <<>>
    /\ pc' = "start"
    /\ UNCHANGED <<text, chamber, speech_date, runs, detectVars, restVars>>

Next == ParseSpeeches \/ ConvertSpeeches \/ BuildAgain \/ BuildAgainInNewProcess

Spec == Init /\ [][Next]_vars

-----------------------------------------------------------------------------
(* detect_bill_references called on its own *)

buildVars == <<text, chamber, speech_date, pc, speeches, built, prev, runs>>

InitDetect ==
    /\ \E a \in DetectInputs : d_text = a[1] /\ d_title = a[2]
    /\ hashSeed \in HashSeeds
    /\ d_pc = "call"
    /\ d_refs = <<>>
    /\ text = <<>>
    /\ chamber = "HOUSE"
    /\ speech_date = [year |-> 2025, month |-> 1, day |-> 3]
    /\ pc = "idle"
    /\ speeches = <<>>
    /\ built = <<>>
    /\ prev = <<>>
    /\ runs = 0
    /\ DbEmpty /\ LookupIdle /\ SaveIdle /\ FetchIdle /\ PublishIdle

Detect ==
    /\ d_pc = "call"
    /\ d_refs' = detect_bill_references(d_text, d_title, hashSeed)
    /\ d_pc' = "ret"
    /\ UNCHANGED <<d_text, d_title, hashSeed, buildVars, restVars>>

NextDetect == Detect

SpecDetect == InitDetect /\ [][NextDetect]_vars

-----------------------------------------------------------------------------
(* Properties *)

\* the announcements whose turn _parse_speeches keeps, in document order
KeptMatches(s) ==
    LET ms == SpeakerMatches(s)
        kept == {i \in 1..Len(ms) : Len(ContentOf(s, ms, i)) >= 100}
        n == IF Cardinality(kept) > 50 THEN 50 ELSE Cardinality(kept)
        nth(j) == CHOOSE i \in kept : Cardinality({k \in kept : k < i}) = j - 1
    IN  [j \in 1..n |-> ms[nth(j)]]

\* C1: every speech turn _parse_speeches emits has a content of at least 100
\* and at most 10,000 characters.
C1_ContentLengthBounded ==
    /\ \A j \in 1..Len(speeches) :
          Len(speeches[j].content) >= 100 /\ Len(speeches[j].content) <= 10000
    /\ \A j \in 1..Len(built) :
          Len(built[j].content) >= 100 /\ Len(built[j].content) <= 10000

\* C1 happens: a document longer than the cap was parsed, one turn was cut to
\* 10,000 characters and one announcement was dropped as too short.
C1_Witness ==
    /\ pc = "parsed"
    /\ Len(text) > 10000
    /\ \E j \in 1..Len(speeches) : Len(speeches[j].content) = 10000
    /\ Len(SpeakerMatches(text)) > Len(speeches)

\* C2: _parse_speeches emits at most 50 turns for one document.
C2_AtMostFiftyTurns == Len(speeches) <= 50 /\ Len(built) <= 50

\* C2 happens: a document with more than 50 announcements of 100 or more
\* characters each was parsed and 50 turns came out.
C2_Witness ==
    /\ pc = "parsed"
    /\ Len(speeches) = 50
    /\ LET ms == SpeakerMatches(text)
       IN  Cardinality({i \in 1..Len(ms) : Len(ContentOf(text, ms, i)) >= 100}) > 50

\* a title token stands at the start of a line of s
TitleTokens == {<<"M","r",".">>, <<"M","r","s",".">>, <<"M","s",".">>,
                <<"M","i","s","s">>, <<"T","h","e">>}
\* SPEAKER_PATTERN matches somewhere in s
HasAnnouncement(s) == \E i \in 1..Len(s) : SpeakerMatchAt(s, i) # <<>>

TitleAtLineStart(s) ==
    \E i \in 1..Len(s) : \E w \in TitleTokens :
        /\ (i = 1 \/ s[i - 1] = "\n")
        /\ i + Len(w) - 1 <= Len(s)
        /\ SubSeq(s, i, i + Len(w) - 1) = w

\* C3: a text without a speaker announcement (no match of the pattern; in
\* particular no title token at the start of any line, the empty text,
\* whitespace only) yields no turns.
C3_NoAnnouncementNoTurns ==
    (pc \in {"parsed", "built"}
        /\ (~TitleAtLineStart(text) \/ ~HasAnnouncement(text)))
    => (speeches = <<>> /\ built = <<>>)

\* C3 happens: the whitespace-only document was parsed and gave no turns.
C3_Witness ==
    /\ pc = "parsed"
    /\ text = <<" ", " ", " ">>
    /\ speeches = <<>>

IsDigit(c) == c \in DigitSet
IsNotDotOrWhite(c) == c # "." /\ c \notin WhiteSet

\* C4: every spelling of a citation that differs only in optional periods,
\* interior whitespace (space, tab, newline) and letter case is normalized to
\* the same identifier: the letters upper-cased, then the number.
C4_SpellingsNormalizeAlike ==
    (d_pc = "ret" /\ d_title = None /\ d_text \in SpelledCitations)
    => d_refs = <<SelectSeq(StrUpper(d_text), IsNotDotOrWhite)>>

\* C5: no citation is reported whose digit run is immediately followed by a
\* letter: the number of every identifier returned is a whole digit run of the
\* searched text that no letter follows; "HR2988A" gives nothing, "HR 2988,"
\* gives HR2988.
C5_NoNumberBeforeLetter ==
    d_pc = "ret" =>
    LET st == SearchText(d_text, d_title) IN
    /\ \A j \in 1..Len(d_refs) :
          \E a \in 1..Len(st) : \E b \in a..Len(st) :
              /\ \A p \in a..b : st[p] \in DigitSet
              /\ (a = 1 \/ st[a - 1] \notin DigitSet)
              /\ (b = Len(st) \/ st[b + 1] \notin DigitSet \cup LetterSet)
              /\ SelectSeq(d_refs[j], IsDigit) = SubSeq(st, a, b)
    /\ (d_text = <<"H","R","2","9","8","8","A">> /\ d_title = None) => d_refs = <<>>
    /\ (d_text = <<"H","R"," ","2","9","8","8",",">> /\ d_title = None)
          => d_refs = << <<"H","R","2","9","8","8">> >>

\* C5 happens: detect_bill_references returned from "HR2988A".
C5_Witness ==
    /\ d_pc = "ret"
    /\ d_text = <<"H","R","2","9","8","8","A">>
    /\ d_refs = <<>>

CanonicalTypes == {<<"H","R">>, <<"S">>, <<"H","J","R","E","S">>, <<"S","J","R","E","S">>,
                   <<"H","C","O","N","R","E","S">>, <<"S","C","O","N","R","E","S">>}

WellFormedId(id) ==
    \E ty \in CanonicalTypes :
        /\ Len(id) > Len(ty)
        /\ SubSeq(id, 1, Len(ty)) = ty
        /\ \A p \in Len(ty) + 1..Len(id) : id[p] \in DigitSet
        /\ id[Len(ty) + 1] # "0"

\* C6: every identifier detect_bill_references returns is <TYPE><NUMBER>, TYPE
\* one of the six types and NUMBER a positive integer without leading zeros.
C6_IdsWellFormed == \A j \in 1..Len(d_refs) : WellFormedId(d_refs[j])

\* C7: a turn's related_bill_id is the identifier of the citation that comes
\* first in its title and content, and None when they cite no bill.
C7_RelatedBillIsFirstCited ==
    pc = "built" =>
    \A j \in 1..Len(built) :
        LET ids == DetectedInOrder(built[j].content, built[j].title)
        IN  built[j].related_bill_id = (IF ids = <<>> THEN None ELSE ids[1])

\* "Mr. SMITH of Ohio." and more than 100 characters that cite H.R. 2988
ScenarioDocument == Section(NoHead, MrSmithOfOhio, CiteHR2988 \o Fill("x", 100))

LineAt(w, i) == SubSeq(w, i, i + RunLen(w, i, {c \in {w[p] : p \in 1..Len(w)} : c # "\n"}) - 1)

\* the starts of the lines of w that are a topic header on their own: at least
\* 10 characters, an upper-case letter first, then upper-case letters, blanks
\* and - , . ' to the line's end
QualifyingLines(w) ==
    {i \in 1..Len(w) :
        /\ (i = 1 \/ w[i - 1] = "\n")
        /\ w[i] \in UpperSet
        /\ Len(LineAt(w, i)) >= 10
        /\ \A p \in 1..Len(LineAt(w, i)) :
              LineAt(w, i)[p] \in UpperSet \cup {" ", "\t", "-", ",", ".", "'"}}

\* C9: the topic of a turn is the qualifying line closest to the announcement
\* in the 200 characters before it, trimmed, and None when there is none.
C9_TopicIsNearestLine ==
    pc \in {"parsed", "built"} =>
    LET kept == KeptMatches(text) IN
    \A j \in 1..Len(speeches) :
        LET start == kept[j].start
            w == SubSeq(text, IF start - 200 < 1 THEN 1 ELSE start - 200, start - 1)
            q == QualifyingLines(w)
        IN  speeches[j].title =
                (IF q = {} THEN None ELSE StrStrip(LineAt(w, MaxOf(q))))

\* C10: building the same document (same text, chamber, date) a second time
\* gives the same turns, field by field.
C10_RebuildIsIdentical == (runs = 2 /\ pc = "built") => built = prev

\* the indexes in SpeakerMatches(s) of the announcements whose turn is kept
KeptIndexes(s) ==
    LET ms == SpeakerMatches(s)
        long == {i \in 1..Len(ms) :
                    Len(StrStrip(SubSeq(s, ms[i].end,
                        IF i < Len(ms) THEN ms[i + 1].start - 1 ELSE Len(s)))) >= 100}
        n == IF Cardinality(long) > 50 THEN 50 ELSE Cardinality(long)
        nth(j) == CHOOSE i \in long : Cardinality({k \in long : k < i}) = j - 1
    IN  [j \in 1..n |-> nth(j)] \o <<>>

\* C18: the content of every emitted turn lies in the text strictly between
\* the end of its own announcement and the start of the next announcement of
\* the document (the end of the document for the last one), whether or not
\* that next announcement's turn is kept; announcements do not overlap, so
\* the spans of distinct turns are disjoint and hold no announcement text.
C18_ContentBetweenAnnouncements ==
    pc = "parsed" =>
    LET ms == SpeakerMatches(text)
        idx == KeptIndexes(text)
    IN  /\ Len(idx) = Len(speeches)
        /\ \A i \in 1..(Len(ms) - 1) : ms[i].end <= ms[i + 1].start
        /\ \A j \in 1..Len(speeches) :
              LET lo == ms[idx[j]].end
                  hi == IF idx[j] < Len(ms) THEN ms[idx[j] + 1].start - 1 ELSE Len(text)
                  n == Len(speeches[j].content)
              IN  \E a \in lo..hi :
                      /\ a + n - 1 <= hi
                      /\ SubSeq(text, a, a + n - 1) = speeches[j].content

\* C18 happens: a kept turn is followed by an announcement whose own turn is
\* dropped as too short, and a later turn is kept as well.
C18_Witness ==
    /\ pc = "parsed"
    /\ Len(speeches) >= 2
    /\ LET idx == KeptIndexes(text)
       IN  \E j \in 1..(Len(idx) - 1) : idx[j + 1] > idx[j] + 1

\* C19: the state code of a turn is absent or exactly two upper-case letters,
\* for every placename the "of <placename>" clause can match, and it is absent
\* exactly when the announcement has no such clause.
C19_StateCodeTwoLetters ==
    pc = "parsed" =>
    LET kept == KeptMatches(text) IN
    \A j \in 1..Len(speeches) :
        /\ (speeches[j].speaker_state = None) <=> (kept[j].state = None)
        /\ speeches[j].speaker_state # None =>
              /\ Len(speeches[j].speaker_state) = 2
              /\ \A p \in 1..2 : speeches[j].speaker_state[p] \in UpperSet

\* C20: a line of the 200 characters before an announcement that consists of
\* upper-case letters, blanks and - , . ' is recovered as the topic exactly
\* when it is at least 10 characters long: a topic is recovered if and only if
\* the window has such a line, and a recovered topic is never shorter.
C20_TopicLineAtLeastTen ==
    pc = "parsed" =>
    LET kept == KeptMatches(text) IN
    \A j \in 1..Len(speeches) :
        LET start == kept[j].start
            w == SubSeq(text, IF start - 200 < 1 THEN 1 ELSE start - 200, start - 1)
        IN  /\ (speeches[j].title # None) <=> (QualifyingLines(w) # {})
            /\ speeches[j].title # None => Len(speeches[j].title) >= 10

-----------------------------------------------------------------------------
(* lookup_bill_by_reference called on its own (lines 82-103) *)

DigitSeq == <<"0","1","2","3","4","5","6","7","8","9">>
DigitVal(c) == (CHOOSE i \in 1..10 : DigitSeq[i] = c) - 1

\* int(s) of a string of decimal digits
RECURSIVE IntOf(_)
IntOf(s) ==
    IF s = <<>> THEN 0
    ELSE 10 * IntOf(SubSeq(s, 1, Len(s) - 1)) + DigitVal(s[Len(s)])

\* re.match(r'([A-Z]+)(\d+)', bill_ref): anchored at the start only; the
\* two classes are disjoint, so each group is the longest run.  None when
\* there is no match, else the two groups.
RefMatch(r) ==
    LET a == RunLen(r, 1, UpperSet)
        b == RunLen(r, a + 1, DigitSet)
    IN  IF a = 0 \/ b = 0 THEN None
        ELSE <<SubSeq(r, 1, a), SubSeq(r, a + 1, a + b)>>

\* the rows of session.query(Bill).filter(Bill.bill_type == bill_type,
\* Bill.bill_number == bill_num)
BillRows(B, bill_type, bill_num) ==
    {b \in B : b.bill_type = bill_type /\ b.bill_number = bill_num}

\* the values lookup_bill_by_reference can return: .first() of a query
\* without ORDER BY is any one of the rows, None when there is none
LookupResults(r, B) ==
    LET match == RefMatch(r)
    IN  IF match = None THEN {None}
        ELSE LET rows == BillRows(B, StrLower(match[1]), IntOf(match[2]))
             IN  IF rows = {} THEN {None} ELSE rows

HR2988 == <<"H","R","2","9","8","8">>

\* the identifiers looked up
BillRefs ==
    {HR2988,
     <<"h","r","2","9","8","8">>,
     <<"H","r","2","9","8","8">>,
     <<"h","R","2","9","8","8">>,
     HR2988 \o <<"X","Y","Z">>,
     HR2988 \o <<"0">>,
     <<"2","9","8","8">>,
     <<>>,
     <<"H","R">>,
     <<"H","R"," ","2","9","8","8">>,
     <<"H","\t","R","2","9","8","8">>,
     <<"H","R","E","S","2","9","8","8">>,
     <<"S","4">>,
     <<"s","4">>,
     <<"S","0","0","0","4">>}

\* rows of table bills; bill_type is stored lower-cased (etl/bills.py)
BillUniverse ==
    {[id |-> 1, congress |-> 118, bill_type |-> <<"h","r">>, bill_number |-> 2988],
     [id |-> 2, congress |-> 119, bill_type |-> <<"h","r">>, bill_number |-> 2988],
     [id |-> 3, congress |-> 119, bill_type |-> <<"s">>, bill_number |-> 4],
     [id |-> 4, congress |-> 119, bill_type |-> <<"h","r","e","s">>, bill_number |-> 2988]}

InitLookup ==
    /\ bill_ref \in BillRefs
    /\ bills \in SUBSET BillUniverse
    /\ l_pc = "call"
    /\ l_result = None
    /\ store = <<>>
    /\ SaveIdle /\ FetchIdle /\ PublishIdle
    /\ hashSeed = 0
    /\ d_text = <<>>
    /\ d_title = None
    /\ d_pc = "idle"
    /\ d_refs = <<>>
    /\ text = <<>>
    /\ chamber = "HOUSE"
    /\ speech_date = [year |-> 2025, month |-> 1, day |-> 3]
    /\ pc = "idle"
    /\ speeches = <<>>
    /\ built = <<>>
    /\ prev = <<>>
    /\ runs = 0

lookup_bill_by_reference ==
    /\ l_pc = "call"
    /\ l_result' \in LookupResults(bill_ref, bills)
    /\ l_pc' = "ret"
    /\ UNCHANGED <<bill_ref, dbVars, saveVars, fetchVars, publishVars, hashSeed, detectVars, buildVars>>

NextLookup == lookup_bill_by_reference

SpecLookup == InitLookup /\ [][NextLookup]_vars

\* letters followed by digits and nothing else
WellShaped(r) ==
    \E k \in 1..(Len(r) - 1) :
        /\ \A i \in 1..k : r[i] \in LetterSet
        /\ \A i \in (k + 1)..Len(r) : r[i] \in DigitSet

\* the type letters and the number of a well-shaped identifier
ShapeType(r) == SubSeq(r, 1, RunLen(r, 1, LetterSet))
ShapeNumber(r) == IntOf(SubSeq(r, RunLen(r, 1, LetterSet) + 1, Len(r)))

\* C11: the lookup returns None (and does not raise) whenever the identifier
\* is not letters followed by digits and nothing else, and whenever the
\* store has no bill of the identifier's type and number.
C11_UnresolvedIsNone ==
    /\ l_pc # "raised"
    /\ l_pc = "ret" =>
         ((\/ ~WellShaped(bill_ref)
           \/ BillRows(bills, StrLower(ShapeType(bill_ref)), ShapeNumber(bill_ref)) = {})
          => l_result = None)

\* C12: the lookup of any letter-case variant of an identifier returns what
\* the lookup of the upper-case identifier returns.
C12_CaseInsensitive ==
    (l_pc = "ret" /\ WellShaped(bill_ref))
    => l_result \in LookupResults(StrUpper(bill_ref), bills)

-----------------------------------------------------------------------------
(* save_speeches (lines 336-375) on the tables floor_speeches and bills *)

\* an optional Integer column: NULL is None, the integer n is <<n>>
SomeInt(n) == <<n>>

MaxBatch == 2

\* the three columns the duplicate query filters on
SpeechKey(sp) == <<sp.speech_date, sp.chamber, sp.speaker_name>>

\* the duplicate query sees the committed rows only (a session without autoflush)
Existing_NoAutoflush(committed, pending, sp) ==
    \E i \in 1..Len(committed) : SpeechKey(committed[i]) = SpeechKey(sp)

\* existing = session.query(FloorSpeech).filter(...).first(): the session
\* of get_session() autoflushes, so the speeches added earlier in the call
\* are rows of the table when the query runs
Existing(committed, pending, sp) ==
    \E i \in 1..Len(committed \o pending) :
        SpeechKey((committed \o pending)[i]) = SpeechKey(sp)

\* lookup_bill_by_reference(speech.related_bill_id, session) where the
\* table is scanned in the order ord
FirstBill(r, ord) ==
    LET B == {ord[i] : i \in 1..Len(ord)}
        rows == LookupResults(r, B)
    IN  IF rows = {None} THEN None
        ELSE ord[MinOf({i \in 1..Len(ord) : ord[i] \in rows})]

\* the bill is looked up and forgotten
Link_Never(sp, ord) == sp

\* if speech.related_bill_id: bill = lookup...; if bill: speech.related_bill_db_id = bill.id
Link(sp, ord) ==
    IF sp.related_bill_id # None
    THEN LET bill == FirstBill(sp.related_bill_id, ord)
         IN  IF bill # None
             THEN [sp EXCEPT !.related_bill_db_id = SomeInt(bill.id)]
             ELSE sp
    ELSE sp

\* for speech in speeches: ... session.add(speech); saved_count += 1
RECURSIVE SaveLoop(_, _, _, _, _, _)
SaveLoop(q, i, committed, pending, count, ord) ==
    IF i > Len(q) THEN [pending |-> pending, saved_count |-> count]
    ELSE IF ~Existing(committed, pending, q[i])
         THEN SaveLoop(q, i + 1, committed, Append(pending, Link(q[i], ord)),
                       count + 1, ord)
         ELSE SaveLoop(q, i + 1, committed, pending, count, ord)

\* the orders a scan of table bills can return its rows in
ScanOrders(B) ==
    {ord \in [1..Cardinality(B) -> B] : {ord[i] : i \in 1..Cardinality(B)} = B}

Jan3 == [year |-> 2025, month |-> 1, day |-> 3]
Dec19 == [year |-> 2024, month |-> 12, day |-> 19]
MrSmithOhio == <<"M","r","."," ","S","M","I","T","H"," ","(","O","h","i","o",")">>
MsLEE == <<"M","s","."," ","L","E","E">>

FloorTopicA == <<"F","L","O","O","R"," ","T","O","P","I","C"," ","A">>

\* a FloorSpeech as _speech_dict_to_model builds it (the columns save_speeches
\* reads or writes, and the title)
NewSpeech(dt, ch, name, title, ref) ==
    [congress |-> CongressOf(dt), chamber |-> ch, speech_date |-> dt,
     speaker_name |-> name, title |-> title,
     related_bill_id |-> ref, related_bill_db_id |-> None]

\* the speeches the batches are made of
SpeechUniverse ==
    {NewSpeech(Jan3, "HOUSE", MrSmithOhio, None, HR2988),
     NewSpeech(Jan3, "HOUSE", MrSmithOhio, FloorTopicA, None),
     NewSpeech(Dec19, "SENATE", MsLEE, None, <<"S","4">>)}

Batches == SeqsUpTo(SpeechUniverse, MaxBatch)

\* the contents of table bills
BillTables ==
    {{}, {b \in BillUniverse : b.id \in {1, 2}}}

InitSave ==
    /\ bills \in BillTables
    /\ store \in {<<>>, <<NewSpeech(Jan3, "HOUSE", MsLEE, FloorTopicA, None)>>}
    /\ batch = <<>>
    /\ s_pc = "call"
    /\ saved_count = 0
    /\ LookupIdle /\ FetchIdle /\ PublishIdle
    /\ hashSeed = 0
    /\ d_text = <<>>
    /\ d_title = None
    /\ d_pc = "idle"
    /\ d_refs = <<>>
    /\ text = <<>>
    /\ chamber = "HOUSE"
    /\ speech_date = Jan3
    /\ pc = "idle"
    /\ speeches = <<>>
    /\ built = <<>>
    /\ prev = <<>>
    /\ runs = 0

\* every save links the stored speeches again
AfterCommit_Relinks(rows, pending, ord) ==
    [i \in 1..Len(rows) |-> Link(rows[i], ord)] \o pending

\* session.commit(): the added speeches become rows, behind the stored ones
AfterCommit(rows, pending, ord) == rows \o pending

\* save_speeches(speeches) that returns: the loop, then session.commit()
SaveSpeeches ==
    \E q \in Batches, ord \in ScanOrders(bills) :
        LET r == SaveLoop(q, 1, store, <<>>, 0, ord)
        IN  /\ batch' = q
            /\ store' = AfterCommit(store, r.pending, ord)
            /\ saved_count' = r.saved_count
            /\ s_pc' = "ret"
            /\ UNCHANGED <<bills, lookupVars, fetchVars, publishVars, hashSeed, detectVars, buildVars>>

\* save_speeches(speeches) whose commit raises: session.rollback(), raise
SaveSpeechesRaises ==
    \E q \in Batches :
        /\ q # <<>>
        /\ batch' = q
        /\ s_pc' = "raised"
        /\ UNCHANGED <<store, saved_count, bills, lookupVars, fetchVars, publishVars, hashSeed,
                       detectVars, buildVars>>

\* the bills a later run of the bill ETL stores
StorableBills == {b \in BillUniverse : b.id = 3}

\* BillFetcher.save_bills adds a bill between two runs of the speech ETL
StoreBill ==
    \E b \in StorableBills \ bills :
        /\ bills' = bills \cup {b}
        /\ s_pc' = "call"
        /\ UNCHANGED <<store, batch, saved_count, lookupVars, fetchVars, publishVars, hashSeed,
                       detectVars, buildVars>>

NextSave == SaveSpeeches \/ SaveSpeechesRaises \/ StoreBill

SpecSave == InitSave /\ [][NextSave]_vars

NoDuplicates(rows) ==
    \A i, j \in 1..Len(rows) : SpeechKey(rows[i]) = SpeechKey(rows[j]) => i = j

MatchingBills(ref, B) ==
    IF WellShaped(ref)
    THEN BillRows(B, StrLower(ShapeType(ref)), ShapeNumber(ref))
    ELSE {}

\* the rows the last call added
NewRows == SubSeq(store, Len(store) - saved_count + 1, Len(store))

\* C16: every turn a call saves keeps its related_bill_id; with a
\* related_bill_id its related_bill_db_id is the id of a stored bill the
\* identifier names when there is one and is absent when there is none, and
\* without a related_bill_id it is absent.
C16_CrossReferenceLinked ==
    s_pc = "ret" =>
        \A k \in 1..Len(NewRows) :
            LET row == NewRows[k]
                named == MatchingBills(row.related_bill_id, bills)
            IN  /\ \E i \in 1..Len(batch) :
                       row = [batch[i] EXCEPT !.related_bill_db_id = row.related_bill_db_id]
                /\ row.related_bill_id = None => row.related_bill_db_id = None
                /\ (row.related_bill_id # None /\ named = {})
                   => row.related_bill_db_id = None
                /\ (row.related_bill_id # None /\ named # {})
                   => \E b \in named : row.related_bill_db_id = SomeInt(b.id)

\* C16 happens: one call saved a turn whose identifier names a stored bill
\* and a turn whose identifier names none.
C16_Witness ==
    /\ s_pc = "ret"
    /\ \E k \in 1..Len(NewRows) : NewRows[k].related_bill_db_id # None
    /\ \E k \in 1..Len(NewRows) :
           /\ NewRows[k].related_bill_id # None
           /\ NewRows[k].related_bill_db_id = None

-----------------------------------------------------------------------------
(* CongressionalRecordFetcher.fetch_speeches_for_date (lines 282-334) with  *)
(* the answers of the API, the download and the text extraction as inputs   *)

\* stop_after_attempt(3)
RetryAttempts == 3

MaxFail == 2

ChamberNames == {"house", "senate"}

\* Chamber.HOUSE if chamber_name == "house" else Chamber.SENATE
ChamberOf(chamber_name) == IF chamber_name = "house" THEN "HOUSE" ELSE "SENATE"

\* a call of log.info / log.error: level, event, and the chamber= and
\* count= (or chars=) keywords when given
LogCall(level, event, chamber_name, count) ==
    [level |-> level, event |-> event, chamber |-> chamber_name, count |-> count]

\* the log calls of a @retry function whose every attempt raises
Attempts(call) == [k \in 1..RetryAttempts |-> call] \o <<>>

DownloadingPdf == LogCall("info", "Downloading PDF", None, None)
FetchingMetadata == LogCall("info", "Fetching Congressional Record metadata", None, None)
FailedChamber(chamber_name) ==
    LogCall("error", "Failed to process chamber PDF", chamber_name, None)

\* speeches.append(self._speech_dict_to_model(speech_data)) for the first n
\* dicts of parsed
Converted(parsed, n, seed) ==
    [j \in 1..n |-> _speech_dict_to_model(parsed[j], seed)] \o <<>>

\* the text is never taken for empty
IsEmptyText_Never(s) == FALSE

\* if not text: continue
IsEmptyText(s) == s = <<>>

\* the rest of the loop body (lines 318-325) once _parse_speeches has
\* returned parsed
ConvertParsed(chamber_name, o, parsed, seed) ==
    IF o.conv_fail \in 1..Len(parsed)
    \* the conversion of turn conv_fail raises: the turns before it are
    \* appended already, then the except clause logs
    THEN [speeches |-> Converted(parsed, o.conv_fail - 1, seed),
          log |-> <<DownloadingPdf,
                    LogCall("info", "Extracted PDF text", chamber_name,
                            SomeInt(Len(o.text))),
                    LogCall("info", "Parsed speeches", chamber_name,
                            SomeInt(Len(parsed))),
                    FailedChamber(chamber_name)>>,
          status |-> "failed", parsed |-> TRUE]
    ELSE [speeches |-> Converted(parsed, Len(parsed), seed),
          log |-> <<DownloadingPdf,
                    LogCall("info", "Extracted PDF text", chamber_name,
                            SomeInt(Len(o.text))),
                    LogCall("info", "Parsed speeches", chamber_name,
                            SomeInt(Len(parsed)))>>,
          status |-> "done", parsed |-> TRUE]

\* one pass of the loop body (lines 306-328) for chamber_name, where o is
\* what the download, fitz and the conversion do: the speeches appended,
\* the log calls, how the body ended and whether _parse_speeches was called
ProcessChamber(chamber_name, o, dt, seed) ==
    IF o.download = "raise"
    THEN [speeches |-> <<>>,
          log |-> Append(Attempts(DownloadingPdf), FailedChamber(chamber_name)),
          status |-> "failed", parsed |-> FALSE]
    ELSE IF o.download = "no_url"
    THEN [speeches |-> <<>>, log |-> <<>>, status |-> "skipped", parsed |-> FALSE]
    ELSE IF o.extract_error
    THEN [speeches |-> <<>>,
          log |-> <<DownloadingPdf,
                    LogCall("error", "Failed to extract PDF text", None, None)>>,
          status |-> "skipped", parsed |-> FALSE]
    ELSE IF IsEmptyText(o.text)
    THEN [speeches |-> <<>>, log |-> <<DownloadingPdf>>,
          status |-> "skipped", parsed |-> FALSE]
    ELSE ConvertParsed(chamber_name, o,
                       _parse_speeches(o.text, ChamberOf(chamber_name), dt), seed)

\* what the pass r of the loop body for chamber_name adds to acc
AfterChamber(acc, chamber_name, r) ==
    [speeches |-> acc.speeches \o r.speeches,
     log |-> acc.log \o r.log,
     status |-> [acc.status EXCEPT ![chamber_name] = r.status],
     parsed |-> IF r.parsed THEN acc.parsed \cup {chamber_name} ELSE acc.parsed]

\* for chamber_name, url in pdf_urls.items(): ...
RECURSIVE ChamberLoop(_, _, _, _, _)
ChamberLoop(pdfs, i, acc, dt, seed) ==
    IF i > Len(pdfs) THEN acc
    ELSE ChamberLoop(pdfs, i + 1,
             AfterChamber(acc, pdfs[i].name,
                          ProcessChamber(pdfs[i].name, pdfs[i].outcome, dt, seed)),
             dt, seed)

NoChamber == [c \in ChamberNames |-> "none"]

TotalFetched(n) == LogCall("info", "Total speeches fetched", None, SomeInt(n))

\* log.info("Total speeches fetched", count=len(speeches), ...); return speeches
WithTotal(r) == [r EXCEPT !.log = Append(r.log, TotalFetched(Len(r.speeches)))]

\* fetch_speeches_for_date(target_date): what is returned, the log calls,
\* how each chamber ended, the chambers parsed
FetchSpeeches(env, dt, seed) ==
    IF ~env.pdf_available
    THEN [speeches |-> <<>>,
          log |-> <<LogCall("error", "PyMuPDF not installed. Run: pip install pymupdf",
                            None, None)>>,
          status |-> NoChamber, parsed |-> {}]
    ELSE IF env.record = "raise"
    THEN [speeches |-> <<>>,
          log |-> Attempts(FetchingMetadata)
                  \o <<LogCall("error", "Failed to fetch speeches", None, None),
                       TotalFetched(0)>>,
          status |-> [c \in ChamberNames |-> "failed"], parsed |-> {}]
    ELSE IF env.record = "404"
    THEN [speeches |-> <<>>,
          log |-> <<FetchingMetadata,
                    LogCall("info", "No Congressional Record for date", None, None)>>,
          status |-> [c \in ChamberNames |-> "skipped"], parsed |-> {}]
    ELSE IF env.pdfs = <<>>
    THEN [speeches |-> <<>>,
          log |-> <<FetchingMetadata,
                    LogCall("info", "No PDF URLs found", None, None)>>,
          status |-> [c \in ChamberNames |-> "skipped"], parsed |-> {}]
    ELSE WithTotal(ChamberLoop(env.pdfs, 1,
                       [speeches |-> <<>>, log |-> <<FetchingMetadata>>,
                        status |-> NoChamber, parsed |-> {}],
                       dt, seed))

\* the texts fitz extracts
OneTurnText == Section(NoHead, MrSmithOfOhio, CiteHR2988 \o Fill("x", MinContentLen))
ThreeTurnText ==
    Section(NoHead, MsLee, IYield)
    \o Section(OneTopic, MsLee, CiteTwo \o Fill("x", MinContentLen))
    \o Section(NoHead, TheSpeaker, <<" ">> \o Fill("x", MinContentLen))
FetchTexts == {<<" ", " ", " ">>, OneTurnText, ThreeTurnText}

\* what the download, fitz and the conversion do for one chamber
ChamberOutcomes ==
    {[download |-> "raise", text |-> <<>>, extract_error |-> FALSE, conv_fail |-> 0],
     [download |-> "no_url", text |-> <<>>, extract_error |-> FALSE, conv_fail |-> 0],
     [download |-> "ok", text |-> <<>>, extract_error |-> TRUE, conv_fail |-> 0],
     [download |-> "ok", text |-> <<>>, extract_error |-> FALSE, conv_fail |-> 0]}
    \cup {[download |-> "ok", text |-> s, extract_error |-> FALSE, conv_fail |-> k] :
             s \in FetchTexts, k \in 0..MaxFail}

\* pdf_urls: "house" is inserted before "senate"
PdfUrls ==
    {<<>>}
    \cup {<<[name |-> c, outcome |-> o]>> : c \in ChamberNames, o \in ChamberOutcomes}
    \cup {<<[name |-> "house", outcome |-> o1], [name |-> "senate", outcome |-> o2]>> :
             o1 \in ChamberOutcomes, o2 \in ChamberOutcomes}

FetchEnvs ==
    {[pdf_available |-> FALSE, record |-> "ok", pdfs |-> <<>>],
     [pdf_available |-> TRUE, record |-> "raise", pdfs |-> <<>>],
     [pdf_available |-> TRUE, record |-> "404", pdfs |-> <<>>]}
    \cup {[pdf_available |-> TRUE, record |-> "ok", pdfs |-> u] : u \in PdfUrls}

Jun30 == [year |-> 2022, month |-> 6, day |-> 30]

\* the dates fetched
FetchDates == {Jan3, Dec19, Jun30}

InitFetch ==
    /\ f_env \in FetchEnvs
    /\ speech_date \in FetchDates
    /\ f_pc = "call"
    /\ f_speeches = <<>>
    /\ f_log = <<>>
    /\ f_status = NoChamber
    /\ f_parsed = {}
    /\ DbEmpty /\ LookupIdle /\ SaveIdle /\ PublishIdle
    /\ hashSeed = 0
    /\ d_text = <<>>
    /\ d_title = None
    /\ d_pc = "idle"
    /\ d_refs = <<>>
    /\ text = <<>>
    /\ chamber = "HOUSE"
    /\ pc = "idle"
    /\ speeches = <<>>
    /\ built = <<>>
    /\ prev = <<>>
    /\ runs = 0

\* the call returns r
Returned(r) ==
    /\ f_speeches' = r.speeches
    /\ f_log' = r.log
    /\ f_status' = r.status
    /\ f_parsed' = r.parsed

FetchSpeechesForDate ==
    /\ f_pc = "call"
    /\ Returned(FetchSpeeches(f_env, speech_date, hashSeed))
    /\ f_pc' = "ret"
    /\ UNCHANGED <<f_env, dbVars, lookupVars, saveVars, publishVars, hashSeed, detectVars,
                   text, chamber, speech_date, pc, speeches, built, prev, runs>>

NextFetch == FetchSpeechesForDate

SpecFetch == InitFetch /\ [][NextFetch]_vars

\* the number of turns of the result that are of the chamber chamber_name
TurnsOf(chamber_name) ==
    Cardinality({j \in 1..Len(f_speeches) :
                    f_speeches[j].chamber = ChamberOf(chamber_name)})

\* a step of the processing of the chamber raises: the download, the
\* extraction (inside fitz) or the conversion of one of its turns
StepRaises(chamber_name, o) ==
    \/ o.download = "raise"
    \/ o.extract_error
    \/ /\ o.download = "ok"
       /\ o.text # <<>>
       /\ o.conv_fail \in
              1..Len(_parse_speeches(o.text, ChamberOf(chamber_name), speech_date))

\* the turns of the text of a chamber whose processing raises nowhere
AllTurns(chamber_name, o) ==
    IF o.download = "ok" /\ o.text # <<>>
    THEN Len(_parse_speeches(o.text, ChamberOf(chamber_name), speech_date))
    ELSE 0

\* C13: the call does not raise; a chamber whose processing raises at any
\* step contributes no turn to the result, and a chamber whose processing
\* does not raise contributes all the turns of its text.
C13_FailedChamberContributesNothing ==
    /\ f_pc # "raised"
    /\ (f_pc = "ret" /\ f_env.pdf_available /\ f_env.record = "ok") =>
         \A i \in 1..Len(f_env.pdfs) :
             LET chamber_name == f_env.pdfs[i].name
                 o == f_env.pdfs[i].outcome
             IN  IF StepRaises(chamber_name, o)
                 THEN TurnsOf(chamber_name) = 0
                 ELSE TurnsOf(chamber_name) = AllTurns(chamber_name, o)

\* the error-level log calls about the chamber or about the whole run
FailureReports(chamber_name) ==
    {i \in 1..Len(f_log) :
        /\ f_log[i].level = "error"
        /\ \/ f_log[i].chamber = chamber_name
           \/ f_log[i].event = "Failed to fetch speeches"}

ShortTurns(s) ==
    LET ms == SpeakerMatches(s)
    IN  Cardinality({i \in 1..Len(ms) : TooShort(ContentOf(s, ms, i))})

\* the log calls that say how many characters and turns a chamber gave
ProgressEvents == {"Extracted PDF text", "Parsed speeches"}

\* the other log calls that name the chamber
ReportsOf(chamber_name) ==
    {i \in 1..Len(f_log) :
        f_log[i].chamber = chamber_name /\ f_log[i].event \notin ProgressEvents}

\* C17: the output of a run reports every skipped chamber and every failed
\* chamber once, and for every chamber parsed the number of turns dropped
\* as too short.
C17_SoftFailuresCounted ==
    (f_pc = "ret" /\ f_env.pdf_available /\ f_env.record = "ok") =>
        \A i \in 1..Len(f_env.pdfs) :
            LET chamber_name == f_env.pdfs[i].name
                o == f_env.pdfs[i].outcome
            IN  /\ f_status[chamber_name] \in {"skipped", "failed"}
                   => Cardinality(ReportsOf(chamber_name)) = 1
                /\ (chamber_name \in f_parsed /\ ShortTurns(o.text) > 0)
                   => \E k \in ReportsOf(chamber_name) :
                          f_log[k].count = SomeInt(ShortTurns(o.text))

-----------------------------------------------------------------------------
(* Further properties of _parse_speeches and detect_bill_references *)

\* C23: the turns emitted for a document are, in document order, the first
\* 50 announcements whose trimmed content has at least 100 characters (all of
\* them when there are fewer): an announcement dropped as too short does not
\* count toward the 50.
C23_FirstFiftyLongTurns ==
    pc = "parsed" =>
    LET ms == SpeakerMatches(text)
        idx == KeptIndexes(text)
    IN  /\ Len(speeches) = Len(idx)
        /\ \A j \in 1..Len(speeches) :
              LET trimmed == StrStrip(SubSeq(text, ms[idx[j]].end,
                                 IF idx[j] < Len(ms) THEN ms[idx[j] + 1].start - 1
                                 ELSE Len(text)))
              IN  /\ speeches[j].content =
                         SubSeq(trimmed, 1, IF Len(trimmed) > 10000 THEN 10000
                                            ELSE Len(trimmed))
                  /\ speeches[j].speaker_name =
                         SpeakerName(ms[idx[j]].title, ms[idx[j]].name, ms[idx[j]].state)

\* C23 happens: 50 turns were emitted for a document in which an announcement
\* too short to keep stands before each of more than 50 long ones.
C23_Witness ==
    /\ pc = "parsed"
    /\ Len(speeches) = 50
    /\ LET ms == SpeakerMatches(text)
           idx == KeptIndexes(text)
       IN  /\ idx[1] = 2
           /\ idx[50] = 100
           /\ Len(ms) > 100

\* the members of a list
SetOf(q) == {q[i] : i \in 1..Len(q)}

\* C27: the identifiers detected for a title and a text are those detected
\* in the title alone together with those detected in the text alone.
C27_TitleAndTextUnion ==
    (d_pc = "ret" /\ d_title # None) =>
        SetOf(d_refs) = SetOf(detect_bill_references(d_title, None, hashSeed))
                        \cup SetOf(detect_bill_references(d_text, None, hashSeed))

\* VoteFetcher.fetch_votes_for_date: the congress of a date
VoteCongressOf(dt) ==
    IF dt.year >= 2025 THEN 119 ELSE IF dt.year >= 2023 THEN 118 ELSE 117

\* BillFetcher.fetch_bills_for_date: the congress of a date
BillCongressOf(dt) ==
    IF dt.year >= 2025 THEN 119 ELSE IF dt.year >= 2023 THEN 118 ELSE 117

\* C30: the congress of every speech fetched for a date is the congress the
\* vote fetcher and the bill fetcher use for that date.
C30_SameCongressAsVotesAndBills ==
    f_pc = "ret" =>
        \A j \in 1..Len(f_speeches) :
            /\ f_speeches[j].congress = VoteCongressOf(speech_date)
            /\ f_speeches[j].congress = BillCongressOf(speech_date)

\* C29: no step changes or removes a stored speech: every row of
\* floor_speeches keeps all its fields, related_bill_id and
\* related_bill_db_id included, also when the bill it names is stored later
\* and the speech is saved again.
C29_StoredSpeechesUnchanged ==
    [][/\ Len(store') >= Len(store)
       /\ \A i \in 1..Len(store) : store'[i] = store[i]]_vars

\* C29 happens: a speech stored without a link names a bill that has been
\* stored since, and the call that saved the speech again added nothing.
C29_Witness ==
    /\ s_pc = "ret"
    /\ saved_count = 0
    /\ \E i \in 1..Len(store) :
           /\ store[i].related_bill_id # None
           /\ store[i].related_bill_db_id = None
           /\ MatchingBills(store[i].related_bill_id, bills) # {}
           /\ \E k \in 1..Len(batch) : batch[k] = store[i]

(***************************************************************************)
(* Bluesky posts (src/formatters/bluesky.py).  A character outside ASCII   *)
(* is one element written by its code point ("U+00F0"), so that Len is     *)
(* Python's len.  An optional Integer column is None or SomeInt(n).        *)
(***************************************************************************)

\* Bluesky character limit
CHAR_LIMIT == 300

VoteRoom == 30

truncate_NoLimit(txt, limit) == txt

\* truncate(text, limit)
truncate(txt, limit) ==
    IF Len(txt) <= limit THEN txt
    ELSE Slice(txt, 0, limit - 3) \o <<".", ".", ".">>

\* str(n) of an int
RECURSIVE StrOfInt(_)
StrOfInt(n) ==
    IF n < 0 THEN <<"-">> \o StrOfInt(0 - n)
    ELSE IF n < 10 THEN <<DigitSeq[n + 1]>>
    ELSE StrOfInt(n \div 10) \o <<DigitSeq[(n % 10) + 1]>>

MonthNames ==
    << <<"J", "a", "n", "u", "a", "r", "y">>, <<"F", "e", "b", "r", "u", "a", "r", "y">>, <<"M", "a", "r", "c", "h">>, <<"A", "p", "r", "i", "l">>, <<"M", "a", "y">>, <<"J", "u", "n", "e">>,
       <<"J", "u", "l", "y">>, <<"A", "u", "g", "u", "s", "t">>, <<"S", "e", "p", "t", "e", "m", "b", "e", "r">>, <<"O", "c", "t", "o", "b", "e", "r">>, <<"N", "o", "v", "e", "m", "b", "e", "r">>,
       <<"D", "e", "c", "e", "m", "b", "e", "r">> >>

\* d.strftime("%B %d, %Y")
StrfDate(d) ==
    MonthNames[d.month] \o <<" ">>
        \o (IF d.day < 10 THEN <<"0">> ELSE <<>>) \o StrOfInt(d.day)
        \o <<",", " ">> \o StrOfInt(d.year)

\* bool(x) of an optional Integer column: None and 0 are false
IntTruthy(x) == x # None /\ x # SomeInt(0)

\* {VoteResult.PASSED: "PASSED", ...}.get(vote.result, "VOTED")
ResultText(result) ==
    CASE result = "PASSED" -> <<"P", "A", "S", "S", "E", "D">>
      [] result = "FAILED" -> <<"F", "A", "I", "L", "E", "D">>
      [] result = "AGREED_TO" -> <<"A", "G", "R", "E", "E", "D">>
      [] result = "REJECTED" -> <<"R", "E", "J", "E", "C", "T", "E", "D">>
      [] OTHER -> <<"V", "O", "T", "E", "D">>

\* the description format_vote builds; None when the vote has no context
VoteDesc_AlwaysQuestion(vote, bill_title) ==
    IF vote.amendment_author # <<>> THEN
        <<"A", "m", "e", "n", "d", "m", "e", "n", "t", " ", "b", "y", " ">> \o vote.amendment_author
            \o (IF vote.bill_id # <<>> THEN <<" ", "t", "o", " ">> \o vote.bill_id ELSE <<>>)
    ELSE IF vote.bill_id # <<>> THEN
        IF bill_title # <<>> THEN vote.bill_id \o <<":", " ">> \o bill_title
        ELSE <<"V", "o", "t", "e", " ", "o", "n", " ">> \o vote.bill_id
    ELSE IF vote.description # <<>> THEN vote.description
    ELSE <<"R", "o", "l", "l", " ", "C", "a", "l", "l", " ", "V", "o", "t", "e">>

VoteDesc(vote, bill_title) ==
    IF vote.amendment_author # <<>> THEN
        <<"A", "m", "e", "n", "d", "m", "e", "n", "t", " ", "b", "y", " ">> \o vote.amendment_author
            \o (IF vote.bill_id # <<>> THEN <<" ", "t", "o", " ">> \o vote.bill_id ELSE <<>>)
    ELSE IF vote.bill_id # <<>> THEN
        IF bill_title # <<>> THEN vote.bill_id \o <<":", " ">> \o bill_title
        ELSE <<"V", "o", "t", "e", " ", "o", "n", " ">> \o vote.bill_id
    ELSE IF vote.description # <<>> THEN vote.description
    ELSE IF vote.question # <<>> THEN vote.question
    ELSE None

\* format_vote(vote, bill_title)
format_vote(vote, bill_title) ==
    IF VoteDesc(vote, bill_title) = None THEN None
    ELSE truncate(<<"[">> \o ResultText(vote.result) \o <<"]", " ">> \o VoteDesc(vote, bill_title),
                  CHAR_LIMIT - VoteRoom)

\* f"{bill.bill_type.upper()}{bill.bill_number}"
BillStrId(bill) == StrUpper(bill.bill_type) \o StrOfInt(bill.bill_number)

\* format_bill(bill)
format_bill(bill) ==
    truncate(
        IF bill.ai_summary # <<>> THEN BillStrId(bill) \o <<":", " ">> \o bill.ai_summary
        ELSE BillStrId(bill) \o <<":", " ">>
                \o (IF bill.title # <<>> THEN bill.title ELSE <<"U", "n", "t", "i", "t", "l", "e", "d", " ", "b", "i", "l", "l">>)
                \o (IF bill.latest_action_text # <<>>
                    THEN <<"\n", "A", "c", "t", "i", "o", "n", ":", " ">> \o bill.latest_action_text ELSE <<>>),
        CHAR_LIMIT)

SentenceLimit == 150

\* content.split('.')[0]
FirstSegment(content) ==
    IF \E i \in 1..Len(content) : content[i] = "."
    THEN SubSeq(content, 1, MinOf({i \in 1..Len(content) : content[i] = "."}) - 1)
    ELSE content

\* format_speech(speech)
format_speech(speech) ==
    truncate(
        (IF speech.speaker_name # <<>> THEN speech.speaker_name ELSE <<"U", "n", "k", "n", "o", "w", "n">>)
            \o (IF speech.ai_summary # <<>> THEN <<":", " ">> \o speech.ai_summary
                ELSE IF speech.title # <<>> THEN <<" ", "o", "n", " ">> \o speech.title
                ELSE <<":", " ">> \o Slice(FirstSegment(speech.content), 0, SentenceLimit)
                         \o <<".", ".", ".">>),
        CHAR_LIMIT)

\* session.query(...).all() of a table kept as a set: the rows in id order
RECURSIVE RowsOf(_)
RowsOf(S) ==
    IF S = {} THEN <<>>
    ELSE <<CHOOSE r \in S : \A q \in S : r.id <= q.id>>
            \o RowsOf(S \ {CHOOSE r \in S : \A q \in S : r.id <= q.id})

VotesOn(d) == RowsOf({v \in votes : v.vote_date = d})
BillsOn(d) == RowsOf({b \in bills : b.latest_action_date = d})
SpeechesOn(d) == SelectSeq(store, LAMBDA s : s.speech_date = d)

DigestVoteLimit == 5
DigestBillLimit == 5
DigestSpeechLimit == 3

\* the header post
DigestHeader(d, vs, bs, ss) ==
    truncate(<<"C", "o", "n", "g", "r", "e", "s", "s", "i", "o", "n", "a", "l", " ", "A", "c", "t", "i", "v", "i", "t", "y", " ", "-", " ">> \o StrfDate(d) \o <<"\n", "\n">>
                \o <<"V", "o", "t", "e", "s", ":", " ">> \o StrOfInt(Len(vs)) \o <<"\n">>
                \o <<"B", "i", "l", "l", "s", ":", " ">> \o StrOfInt(Len(bs)) \o <<"\n">>
                \o <<"S", "p", "e", "e", "c", "h", "e", "s", ":", " ">> \o StrOfInt(Len(ss)),
             CHAR_LIMIT)

\* one vote of the digest: format_vote(vote), the counts, truncate
DigestVote(vote) ==
    truncate(format_vote(vote, None)
                \o (IF IntTruthy(vote.yea_count) /\ IntTruthy(vote.nay_count)
                    THEN <<"\n", "Y", "e", "a", ":", " ">> \o StrOfInt(vote.yea_count[1])
                            \o <<" ", "/", " ", "N", "a", "y", ":", " ">> \o StrOfInt(vote.nay_count[1])
                    ELSE <<>>),
             CHAR_LIMIT)

\* "...and N more <what>" when a list is longer than its limit
MorePost(n, limit, what) ==
    IF n > limit THEN <<<<".", ".", ".", "a", "n", "d", " ">> \o StrOfInt(n - limit) \o <<" ", "m", "o", "r", "e", " ">> \o what>>
    ELSE <<>>

DigestVotes(vs) ==
    IF vs = <<>> THEN <<>>
    ELSE <<truncate(<<"H", "O", "U", "S", "E", " ", "V", "O", "T", "E", "S", " ", "(">> \o StrOfInt(Len(vs)) \o <<" ", "t", "o", "t", "a", "l", ")", ":">>, CHAR_LIMIT)>>
            \o [i \in 1..Len(Slice(vs, 0, DigestVoteLimit)) |-> DigestVote(vs[i])]
            \o MorePost(Len(vs), DigestVoteLimit, <<"v", "o", "t", "e", "s">>)

DigestBills(bs) ==
    IF bs = <<>> THEN <<>>
    ELSE <<truncate(<<"B", "I", "L", "L", "S", " ", "W", "I", "T", "H", " ", "A", "C", "T", "I", "O", "N", " ", "(">> \o StrOfInt(Len(bs)) \o <<" ", "t", "o", "t", "a", "l", ")", ":">>, CHAR_LIMIT)>>
            \o [i \in 1..Len(Slice(bs, 0, DigestBillLimit)) |-> format_bill(bs[i])]
            \o MorePost(Len(bs), DigestBillLimit, <<"b", "i", "l", "l", "s">>)

DigestSpeeches(ss) ==
    IF ss = <<>> THEN <<>>
    ELSE <<truncate(<<"F", "L", "O", "O", "R", " ", "S", "P", "E", "E", "C", "H", "E", "S", " ", "(">> \o StrOfInt(Len(ss)) \o <<" ", "t", "o", "t", "a", "l", ")", ":">>, CHAR_LIMIT)>>
            \o [i \in 1..Len(Slice(ss, 0, DigestSpeechLimit)) |-> format_speech(ss[i])]
            \o MorePost(Len(ss), DigestSpeechLimit, <<"s", "p", "e", "e", "c", "h", "e", "s">>)

\* vote_text += ... on the None format_vote returned raises TypeError, which
\* the except Exception turns into return []
DigestRaises(vs) ==
    \E i \in 1..Len(Slice(vs, 0, DigestVoteLimit)) : format_vote(vs[i], None) = None

DigestPosts(d, vs, bs, ss) ==
    IF vs = <<>> /\ bs = <<>> /\ ss = <<>> THEN <<>>
    ELSE IF DigestRaises(vs) THEN <<>>
    ELSE <<DigestHeader(d, vs, bs, ss)>> \o DigestVotes(vs) \o DigestBills(bs)
            \o DigestSpeeches(ss) \o <<<<"D", "a", "t", "a", " ", "f", "r", "o", "m", " ", "C", "o", "n", "g", "r", "e", "s", "s", ".", "g", "o", "v", " ", "A", "P", "I">>>>

\* generate_daily_digest(target_date)
generate_daily_digest(d) == DigestPosts(d, VotesOn(d), BillsOn(d), SpeechesOn(d))

(***************************************************************************)
(* The stored rows generate_daily_digest reads.                            *)
(***************************************************************************)

\* length of the long column values
LongLen == 400

MaxRuns == 3

\* a Vote row (the columns formatters/bluesky.py reads or writes)
NewVote(id, dt, result, author, bill_id, description, question, yea, nay) ==
    [id |-> id, vote_date |-> dt, result |-> result, amendment_author |-> author,
     bill_id |-> bill_id, description |-> description, question |-> question,
     yea_count |-> yea, nay_count |-> nay,
     bluesky_post_uri |-> None, posted |-> FALSE, posted_at |-> None]

\* a Bill row
NewBill(id, congress, bill_type, bill_number, title, short_title, ai_summary, action, dt) ==
    [id |-> id, congress |-> congress, bill_type |-> bill_type,
     bill_number |-> bill_number, title |-> title, short_title |-> short_title,
     ai_summary |-> ai_summary, latest_action_text |-> action,
     latest_action_date |-> dt, sponsor_name |-> <<"R", "e", "p", ".", " ", "D", "o", "e">>,
     sponsor_party |-> <<"R">>, sponsor_state |-> <<"O", "H">>,
     bluesky_post_uri |-> None, posted |-> FALSE, posted_at |-> None]

\* a FloorSpeech row
StoredSpeech(id, dt, name, ai_summary, title, content, ref) ==
    [id |-> id, speech_date |-> dt, speaker_name |-> name,
     speaker_party |-> <<"D">>, speaker_state |-> <<"T", "X">>,
     ai_summary |-> ai_summary, title |-> title, content |-> content,
     related_bill_id |-> ref,
     bluesky_post_uri |-> None, posted |-> FALSE, posted_at |-> None]

BigCount == 1234567890

OnPassage == <<"O", "n", " ", "P", "a", "s", "s", "a", "g", "e">>

DigestVoteRows ==
    {NewVote(1, Jan3, "PASSED", Fill("a", LongLen), HR2988, None, OnPassage,
             SomeInt(218), SomeInt(210)),
     NewVote(2, Jan3, "FAILED", None, HR2988, None, OnPassage, None, None),
     NewVote(3, Jan3, "AGREED_TO", None, None, Fill("d", LongLen), None,
             SomeInt(BigCount), SomeInt(BigCount)),
     NewVote(4, Jan3, "REJECTED", None, None, None, OnPassage, SomeInt(0), SomeInt(5)),
     NewVote(5, Jan3, "UNKNOWN", None, None, <<"Q", "u", "o", "r", "u", "m", " ", "C", "a", "l", "l">>, None,
             SomeInt(1), SomeInt(1)),
     NewVote(6, Jan3, "PASSED", None, None, None, None, SomeInt(3), SomeInt(2)),
     NewVote(7, Dec19, "PASSED", None, None, None, Fill("q", LongLen), None, None),
     NewVote(8, Jan3, "PASSED", None, None, None, None, None, None),
     NewVote(9, Jan3, "PASSED", None, <<"S", "4">>, None, None, SomeInt(51), SomeInt(49))}

VoteIds(I) == {v \in DigestVoteRows : v.id \in I}

DigestVoteTables ==
    {VoteIds({}), VoteIds({1}), VoteIds({3}), VoteIds({7}), VoteIds({8, 9}),
     VoteIds({1, 2, 3, 4, 5, 6}), VoteIds({1, 2, 3, 4, 5, 7, 9})}

DigestBillRows ==
    {NewBill(1, 119, <<"h", "r">>, 2988, <<"A", " ", "b", "i", "l", "l">>, None, Fill("s", LongLen), None, Jan3),
     NewBill(2, 119, <<"s">>, 4, Fill("t", LongLen), None, None, Fill("k", LongLen), Jan3),
     NewBill(3, 119, <<"h", "r", "e", "s">>, 7, None, None, None, None, Jan3),
     NewBill(4, 119, <<"h", "r">>, 1, <<"O", "n", "e">>, None, None, <<"R", "e", "f", "e", "r", "r", "e", "d">>, Jan3),
     NewBill(5, 119, <<"h", "r">>, 2, <<"T", "w", "o">>, None, None, None, Jan3),
     NewBill(6, 119, <<"h", "r">>, 3, <<"T", "h", "r", "e", "e">>, None, None, None, Jan3),
     NewBill(7, 118, <<"h", "r">>, 2988, <<"O", "l", "d">>, None, None, None, Dec19)}

BillIds(I) == {b \in DigestBillRows : b.id \in I}

DigestBillTables == {BillIds({}), BillIds({1, 7}), BillIds({2, 3}), BillIds({1, 2, 3, 4, 5, 6})}

DigestSpeechRows ==
    << StoredSpeech(1, Jan3, MrSmithOhio, Fill("s", LongLen), None, None, None),
       StoredSpeech(2, Jan3, MsLEE, None, Fill("T", LongLen), None, None),
       StoredSpeech(3, Jan3, None, None, None, Fill("c", LongLen), None),
       StoredSpeech(4, Jan3, MsLEE, None, None, <<"I", " ", "r", "i", "s", "e", ".", " ", "I", " ", "y", "i", "e", "l", "d", ".">>, None),
       StoredSpeech(5, Dec19, MsLEE, None, None, None, None) >>

DigestSpeechTables ==
    {<<>>, SubSeq(DigestSpeechRows, 1, 1), SubSeq(DigestSpeechRows, 2, 3),
     SubSeq(DigestSpeechRows, 1, 4), SubSeq(DigestSpeechRows, 5, 5)}

DigestDates == {Jan3, Dec19}

publishCallVars == <<p_call, p_result, p_runs>>

InitDigest ==
    /\ text = <<>> /\ chamber = "HOUSE" /\ speech_date = Jan3 /\ hashSeed = 0
    /\ pc = "idle" /\ speeches = <<>> /\ built = <<>> /\ prev = <<>> /\ runs = 0
    /\ d_text = <<>> /\ d_title = None /\ d_pc = "idle" /\ d_refs = <<>>
    /\ LookupIdle /\ SaveIdle /\ FetchIdle
    /\ votes \in DigestVoteTables
    /\ bills \in DigestBillTables
    /\ store \in DigestSpeechTables
    /\ bill_threads = <<>> /\ digests = <<>> /\ sent = <<>> /\ credentials = TRUE
    /\ p_call = <<>> /\ p_result = <<>> /\ p_runs = 0

\* generate_daily_digest(target_date)
GenerateDailyDigest ==
    \E d \in DigestDates :
        /\ p_runs < MaxRuns
        /\ p_call' = [fn |-> "generate_daily_digest", target_date |-> d]
        /\ p_result' = generate_daily_digest(d)
        /\ p_runs' = p_runs + 1
        /\ UNCHANGED <<votes, bill_threads, digests, sent, credentials, dbVars,
                       lookupVars, saveVars, fetchVars, hashSeed, detectVars, buildVars>>

NextDigest == GenerateDailyDigest

SpecDigest == InitDigest /\ [][NextDigest]_vars

DigestReturned == p_call # <<>> /\ p_call.fn = "generate_daily_digest"

\* C21: every post of the list generate_daily_digest returned is at most 300
\* characters long.
C21_DigestPostsFit ==
    DigestReturned => \A i \in 1..Len(p_result) : Len(p_result[i]) <= 300

\* a returned digest holds a vote post that was cut to exactly 300 characters
\* after the counts were added, and a cut bill and speech post
C21_Witness ==
    /\ DigestReturned
    /\ Cardinality({i \in 1..Len(p_result) :
            Len(p_result[i]) = 300
            /\ SubSeq(p_result[i], 298, 300) = <<".", ".", ".">>}) >= 3
    /\ \E v \in votes :
           /\ IntTruthy(v.yea_count) /\ IntTruthy(v.nay_count)
           /\ Len(format_vote(v, None)) + Len(StrOfInt(v.yea_count[1]))
                + Len(StrOfInt(v.nay_count[1])) + 14 > 300

(***************************************************************************)
(* Publishing (publish_vote ... publish_thread).  A call works on the      *)
(* tables and on the posts Bluesky accepted; w is that state while the     *)
(* call runs:  w.sends and w.commits count the send_post and commit calls  *)
(* of the run, w.raised tells that the last step raised, w.result is the   *)
(* value returned.  The uri (and cid) of a post is its position in sent.   *)
(***************************************************************************)

MaxPublishRuns == 2
MaxFaultAt == 2

\* what the network and the database do during a run: nothing, or the at-th
\* client.login/send_post or the at-th session.commit of the run raises
NoFault == [kind |-> "none", at |-> 0]
Faults ==
    {NoFault} \cup {[kind |-> k, at |-> n] : k \in {"send", "commit"}, n \in 1..MaxFaultAt}

World ==
    [votes |-> votes, bills |-> bills, store |-> store, bill_threads |-> bill_threads,
     digests |-> digests, sent |-> sent, sends |-> 0, commits |-> 0,
     raised |-> FALSE, result |-> None]

\* datetime.utcnow() during the run: the number of the run
Now == SomeInt(p_runs + 1)

Ret(w, value) == [w EXCEPT !.result = value]

\* "sub in s"
Contains(s, sub) == \E i \in 1..(Len(s) - Len(sub) + 1) : SubSeq(s, i, i + Len(sub) - 1) = sub

\* client.send_post(text=..., reply_to=...) for the item of kind post_type
SendPost(w, txt, reply_to, post_type, item, fault) ==
    IF fault.kind = "send" /\ fault.at = w.sends + 1
    THEN [w EXCEPT !.sends = @ + 1, !.raised = TRUE]
    ELSE [w EXCEPT !.sends = @ + 1, !.raised = FALSE,
                   !.sent = Append(@, [text |-> txt, reply_to |-> reply_to,
                                       post_type |-> post_type, item |-> item])]

\* response.uri of the post send_post just made
LastUri(w) == SomeInt(Len(w.sent))

\* session.commit() of the changes that make the tables nw; a raise leaves
\* the tables of w
Commit(w, nw, fault) ==
    IF fault.kind = "commit" /\ fault.at = w.commits + 1
    THEN [w EXCEPT !.commits = @ + 1, !.raised = TRUE]
    ELSE [nw EXCEPT !.commits = w.commits + 1, !.raised = FALSE]

\* db_item.bluesky_post_uri = uri; db_item.posted = True; db_item.posted_at = utcnow()
Posted(row, uri) ==
    [row EXCEPT !.bluesky_post_uri = uri, !.posted = TRUE, !.posted_at = Now]

MarkVote(w, id, uri) ==
    [w EXCEPT !.votes = {IF v.id = id THEN Posted(v, uri) ELSE v : v \in @}]
MarkBill(w, id, uri) ==
    [w EXCEPT !.bills = {IF b.id = id THEN Posted(b, uri) ELSE b : b \in @}]
MarkSpeech(w, id, uri) ==
    [w EXCEPT !.store = [i \in 1..Len(@) |->
                            IF @[i].id = id THEN Posted(@[i], uri) ELSE @[i]]]

\* db_vote.posted = True; db_vote.posted_at = utcnow() of a skipped vote
MarkSkipped_Never(w, id) == w
MarkSkipped(w, id) ==
    [w EXCEPT !.votes = {IF v.id = id THEN [v EXCEPT !.posted = TRUE, !.posted_at = Now]
                         ELSE v : v \in @}]

\* the bill title publish_vote looks up for vote.bill_id (the tables hold at
\* most one bill of a type and number, so .first() is that row)
BillTitleOf(B, bill_id) ==
    IF bill_id = <<>> \/ RefMatch(bill_id) = None THEN None
    ELSE IF BillRows(B, StrLower(RefMatch(bill_id)[1]), IntOf(RefMatch(bill_id)[2])) = {}
    THEN None
    ELSE (CHOOSE b \in BillRows(B, StrLower(RefMatch(bill_id)[1]),
                                IntOf(RefMatch(bill_id)[2])) : TRUE).title

\* f"\nYea: {vote.yea_count} / Nay: {vote.nay_count}" when both are truthy
VoteCounts(vote) ==
    IF IntTruthy(vote.yea_count) /\ IntTruthy(vote.nay_count)
    THEN <<"\n", "Y", "e", "a", ":", " ">> \o StrOfInt(vote.yea_count[1])
            \o <<" ", "/", " ", "N", "a", "y", ":", " ">> \o StrOfInt(vote.nay_count[1])
    ELSE <<>>

\* the text publish_vote sends
VotePostText(vote, vote_text) ==
    truncate(<<"U+00F0", "U+0178", "U+2014", "U+00B3", "U+00EF", "U+00B8", " ", "H", "o", "u", "s", "e", " ", "V", "o", "t", "e", " ", "-", " ">> \o StrfDate(vote.vote_date) \o <<"\n", "\n">>
                \o vote_text \o VoteCounts(vote),
             CHAR_LIMIT)

\* publish_vote after the send: the update of the vote record
VoteSent(w, vote, fault) ==
    IF w.raised THEN Ret(w, None)
    ELSE IF Commit(w, MarkVote(w, vote.id, LastUri(w)), fault).raised
    THEN Ret(Commit(w, MarkVote(w, vote.id, LastUri(w)), fault), None)
    ELSE Ret(Commit(w, MarkVote(w, vote.id, LastUri(w)), fault), LastUri(w))

\* publish_vote with the text format_vote returned
PublishVoteText(w, vote, vote_text, fault) ==
    IF vote_text = None THEN
        IF Commit(w, MarkSkipped(w, vote.id), fault).raised
        THEN Ret(Commit(w, MarkSkipped(w, vote.id), fault), None)
        ELSE Ret(Commit(w, MarkSkipped(w, vote.id), fault), <<"s", "k", "i", "p", "p", "e", "d">>)
    ELSE VoteSent(SendPost(w, VotePostText(vote, vote_text), None, "vote", vote.id, fault),
                  vote, fault)

\* publish_vote(vote)
publish_vote(w, vote, fault) ==
    IF ~credentials THEN Ret(w, None)
    ELSE PublishVoteText(w, vote, format_vote(vote, BillTitleOf(w.bills, vote.bill_id)),
                         fault)

\* the text publish_bill sends
BillPostText(bill) ==
    truncate(<<"B", "i", "l", "l", " ", "U", "p", "d", "a", "t", "e", " ", "-", " ">>
                \o (IF bill.latest_action_date # None THEN StrfDate(bill.latest_action_date)
                    ELSE <<"U", "n", "k", "n", "o", "w", "n">>)
                \o <<"\n", "\n">> \o format_bill(bill),
             CHAR_LIMIT)

BillSent(w, bill, fault) ==
    IF w.raised THEN Ret(w, None)
    ELSE IF Commit(w, MarkBill(w, bill.id, LastUri(w)), fault).raised
    THEN Ret(Commit(w, MarkBill(w, bill.id, LastUri(w)), fault), None)
    ELSE Ret(Commit(w, MarkBill(w, bill.id, LastUri(w)), fault), LastUri(w))

\* publish_bill(bill)
publish_bill(w, bill, fault) ==
    IF ~credentials THEN Ret(w, None)
    ELSE BillSent(SendPost(w, BillPostText(bill), None, "bill", bill.id, fault), bill, fault)

\* the text publish_speech sends
SpeechPostText(speech) ==
    truncate(<<"F", "l", "o", "o", "r", " ", "S", "p", "e", "e", "c", "h", " ", "-", " ">> \o StrfDate(speech.speech_date) \o <<"\n", "\n">>
                \o format_speech(speech),
             CHAR_LIMIT)

SpeechSent(w, speech, fault) ==
    IF w.raised THEN Ret(w, None)
    ELSE IF Commit(w, MarkSpeech(w, speech.id, LastUri(w)), fault).raised
    THEN Ret(Commit(w, MarkSpeech(w, speech.id, LastUri(w)), fault), None)
    ELSE Ret(Commit(w, MarkSpeech(w, speech.id, LastUri(w)), fault), LastUri(w))

\* publish_speech(speech)
publish_speech(w, speech, fault) ==
    IF ~credentials THEN Ret(w, None)
    ELSE SpeechSent(SendPost(w, SpeechPostText(speech), None, "speech", speech.id, fault),
                    speech, fault)

\* format_bill_header(bill)
format_bill_header(bill) ==
    truncate(
        <<"U+00F0", "U+0178", "U+201C", "U+0153", " ">> \o BillStrId(bill) \o <<":", " ">>
            \o (IF bill.short_title # <<>> THEN bill.short_title ELSE bill.title)
            \o <<"\n", "\n">>
            \o (IF bill.ai_summary # <<>> THEN bill.ai_summary \o <<"\n", "\n">>
                ELSE IF bill.title # <<>> /\ bill.title # bill.short_title
                THEN bill.title \o <<"\n", "\n">>
                ELSE <<>>)
            \o (IF bill.sponsor_name # <<>>
                THEN <<"S", "p", "o", "n", "s", "o", "r", ":", " ">> \o bill.sponsor_name
                        \o (IF bill.sponsor_party # <<>> /\ bill.sponsor_state # <<>>
                            THEN <<" ", "(">> \o bill.sponsor_party \o <<"-">>
                                    \o bill.sponsor_state \o <<")">>
                            ELSE <<>>)
                ELSE <<>>),
        CHAR_LIMIT)

\* the result_text of format_vote_reply
ReplyResultText(result) ==
    CASE result = "PASSED" -> <<"U+00E2", "U+0153", "U+2026", " ", "P", "A", "S", "S", "E", "D">>
      [] result = "FAILED" -> <<"U+00E2", "U+0152", " ", "F", "A", "I", "L", "E", "D">>
      [] result = "AGREED_TO" -> <<"U+00E2", "U+0153", "U+2026", " ", "A", "G", "R", "E", "E", "D">>
      [] result = "REJECTED" -> <<"U+00E2", "U+0152", " ", "R", "E", "J", "E", "C", "T", "E", "D">>
      [] OTHER -> <<"U+00F0", "U+0178", "U+2014", "U+00B3", "U+00EF", "U+00B8", " ", "V", "O", "T", "E", "D">>

Passage == <<"P", "a", "s", "s", "a", "g", "e">>

\* the vote_type of format_vote_reply
ReplyVoteType(vote) ==
    IF vote.amendment_author # <<>> THEN <<"A", "m", "e", "n", "d", "m", "e", "n", "t", " ", "b", "y", " ">> \o vote.amendment_author
    ELSE IF Contains(vote.question, Passage) THEN <<"F", "i", "n", "a", "l", " ", "P", "a", "s", "s", "a", "g", "e">>
    ELSE IF Contains(vote.question, <<"R", "e", "c", "o", "m", "m", "i", "t">>) THEN <<"M", "o", "t", "i", "o", "n", " ", "t", "o", " ", "R", "e", "c", "o", "m", "m", "i", "t">>
    ELSE IF Contains(vote.question, <<"P", "r", "e", "v", "i", "o", "u", "s", " ", "Q", "u", "e", "s", "t", "i", "o", "n">>) THEN <<"P", "r", "e", "v", "i", "o", "u", "s", " ", "Q", "u", "e", "s", "t", "i", "o", "n">>
    ELSE IF vote.question # <<>> THEN vote.question
    ELSE <<"R", "o", "l", "l", " ", "C", "a", "l", "l", " ", "V", "o", "t", "e">>

\* vote.yea_count or 0
IntOrZero(x) == IF IntTruthy(x) THEN x[1] ELSE 0

\* format_vote_reply(vote)
format_vote_reply(vote) ==
    truncate(<<"U+00F0", "U+0178", "U+2014", "U+00B3", "U+00EF", "U+00B8", " ">> \o ReplyVoteType(vote) \o <<"\n", "\n">>
                \o ReplyResultText(vote.result) \o <<"\n">>
                \o <<"Y", "e", "a", ":", " ">> \o StrOfInt(IntOrZero(vote.yea_count))
                \o <<" ", "|", " ", "N", "a", "y", ":", " ">> \o StrOfInt(IntOrZero(vote.nay_count)),
             CHAR_LIMIT)

ReplyContentLimit == 200

\* format_speech_reply(speech)
format_speech_reply(speech) ==
    truncate(
        <<"U+00F0", "U+0178", "U+017D", "U+00A4", " ">>
            \o (IF speech.speaker_name # <<>> THEN speech.speaker_name ELSE <<"U", "n", "k", "n", "o", "w", "n">>)
            \o (IF speech.speaker_party # <<>> /\ speech.speaker_state # <<>>
                THEN <<" ", "(">> \o speech.speaker_party \o <<"-">> \o speech.speaker_state \o <<")">>
                ELSE <<>>)
            \o <<"\n", "\n">>
            \o (IF speech.ai_summary # <<>> THEN speech.ai_summary
                ELSE IF speech.title # <<>> THEN <<"S", "p", "e", "a", "k", "i", "n", "g", " ", "o", "n", ":", " ">> \o speech.title
                ELSE Slice(speech.content, 0, ReplyContentLimit)
                        \o (IF Len(speech.content) > ReplyContentLimit THEN <<".", ".", ".">>
                            ELSE <<>>)),
        CHAR_LIMIT)

DateKey(d) == d.year * 10000 + d.month * 100 + d.day

\* Vote.vote_date or FloorSpeech.speech_date of a row
RowDate(r) == IF "vote_date" \in DOMAIN r THEN r.vote_date ELSE r.speech_date

\* the first row of .order_by(<date>.desc()): newest first, rows of one date
\* in id order
Newest(S) ==
    CHOOSE r \in S : \A q \in S :
        \/ DateKey(RowDate(r)) > DateKey(RowDate(q))
        \/ (RowDate(r) = RowDate(q) /\ r.id <= q.id)

RECURSIVE NewestFirst(_)
NewestFirst(S) ==
    IF S = {} THEN <<>> ELSE <<Newest(S)>> \o NewestFirst(S \ {Newest(S)})

\* session.query(Vote).filter(Vote.bill_id == bill_id).order_by(Vote.vote_date.desc())
VotesOfBill(w, bill_id) == NewestFirst({v \in w.votes : v.bill_id = bill_id})

\* session.query(FloorSpeech).filter(FloorSpeech.related_bill_id == bill_id)
\*     .order_by(FloorSpeech.speech_date.desc())
SpeechesOfBill(w, bill_id) ==
    NewestFirst({w.store[i] : i \in {j \in 1..Len(w.store) :
                                        w.store[j].related_bill_id = bill_id}})

ThreadSpeechLimit == 5

IsPassage(v) == Contains(v.question, Passage)
IsNotPassage(v) == ~Contains(v.question, Passage)

PassageFirst_DateOrder(vs) == vs

\* passage_votes + other_votes
PassageFirst(vs) == SelectSeq(vs, IsPassage) \o SelectSeq(vs, IsNotPassage)

SpeechPosts_NoLimit(ss) ==
    [i \in 1..Len(ss) |->
        [post_type |-> "speech", text |-> format_speech_reply(ss[i]), item |-> ss[i].id]]

\* the speech posts of the thread
SpeechPosts(ss) ==
    [i \in 1..Len(Slice(ss, 0, ThreadSpeechLimit)) |->
        [post_type |-> "speech", text |-> format_speech_reply(ss[i]), item |-> ss[i].id]]

VotePosts(vs) ==
    [i \in 1..Len(vs) |->
        [post_type |-> "vote", text |-> format_vote_reply(vs[i]), item |-> vs[i].id]]

\* thread_posts: (post_type, text, item); the item is its id, None for the header
ThreadPosts(bill, vs, ss) ==
    <<[post_type |-> "header", text |-> format_bill_header(bill), item |-> None]>>
        \o VotePosts(PassageFirst(vs)) \o SpeechPosts(ss)

\* if post_type == "vote" and item: ... elif post_type == "speech" and item: ...
MarkItem(w, post, uri) ==
    IF post.post_type = "vote" THEN MarkVote(w, post.item, uri)
    ELSE IF post.post_type = "speech" THEN MarkSpeech(w, post.item, uri)
    ELSE w

ReplyTo_RootOnly(root_post, parent_post) == [root |-> root_post, parent |-> root_post]

\* reply_to={"root": root_post, "parent": parent_post}
ReplyTo(root_post, parent_post) == [root |-> root_post, parent |-> parent_post]

\* the send loop of publish_bill_thread and publish_thread from post i on; the
\* first post ("header", or i == 0 in publish_thread) is sent without reply_to
RECURSIVE SendPosts(_, _, _, _, _, _)
RECURSIVE AfterFirst(_, _, _, _)
RECURSIVE AfterReply(_, _, _, _, _)
SendPosts(w, posts, i, root_post, parent_post, fault) ==
    IF i > Len(posts) THEN w
    ELSE IF posts[i].post_type \in {"header", "first"}
    THEN AfterFirst(SendPost(w, posts[i].text, None, posts[i].post_type,
                             posts[i].item, fault),
                    posts, i, fault)
    ELSE AfterReply(SendPost(w, posts[i].text, ReplyTo(root_post, parent_post),
                             posts[i].post_type, posts[i].item, fault),
                    posts, i, root_post, fault)

AfterFirst(w, posts, i, fault) ==
    IF w.raised THEN w
    ELSE SendPosts(w, posts, i + 1, LastUri(w), LastUri(w), fault)

AfterReply(w, posts, i, root_post, fault) ==
    IF w.raised THEN w
    ELSE SendPosts(MarkItem(w, posts[i], LastUri(w)), posts, i + 1, root_post,
                   LastUri(w), fault)

\* session.rollback() after a raise: the tables of w0, the posts made until w
Rollback(w0, w) ==
    [w0 EXCEPT !.sent = w.sent, !.sends = w.sends, !.commits = w.commits,
               !.raised = TRUE]

\* header_uri: response.uri of the header post, the first post sent from w0 on
HeaderUri(w0) == SomeInt(Len(w0.sent) + 1)

\* session.add(bill_thread); the bill marked posted
WithBillThread(w0, w, bill, vs, ss) ==
    MarkBill([w EXCEPT !.bill_threads =
                  Append(@, [bill_id |-> bill.id, bill_str_id |-> BillStrId(bill),
                             header_post_uri |-> HeaderUri(w0),
                             header_post_cid |-> HeaderUri(w0),
                             votes_count |-> Len(vs),
                             speeches_count |-> MinOf({Len(ss), ThreadSpeechLimit}),
                             published |-> TRUE, published_at |-> Now])],
             bill.id, HeaderUri(w0))

ThreadResult(w0, bill, vs, ss, posts) ==
    [bill_id |-> BillStrId(bill), header_uri |-> HeaderUri(w0),
     votes_count |-> Len(vs), speeches_count |-> MinOf({Len(ss), ThreadSpeechLimit}),
     total_posts |-> Len(posts)]

\* publish_bill_thread after the send loop
ThreadSent(w0, w, bill, vs, ss, posts, fault) ==
    IF w.raised THEN Ret(Rollback(w0, w), None)
    ELSE IF Commit(w, WithBillThread(w0, w, bill, vs, ss), fault).raised
    THEN Ret(Rollback(w0, Commit(w, WithBillThread(w0, w, bill, vs, ss), fault)), None)
    ELSE Ret(Commit(w, WithBillThread(w0, w, bill, vs, ss), fault),
             ThreadResult(w0, bill, vs, ss, posts))

DryRunResult(bill, vs, ss, posts) ==
    [bill_id |-> BillStrId(bill),
     posts |-> [i \in 1..Len(posts) |-> <<posts[i].post_type, posts[i].text>>],
     votes_count |-> Len(vs), speeches_count |-> Len(ss)]

DryRun_Publishes(dry_run) == FALSE
DryRun(dry_run) == dry_run

\* publish_bill_thread with the rows of the two queries
PublishThreadOf(w, bill, vs, ss, posts, dry_run, fault) ==
    IF DryRun(dry_run) THEN Ret(w, DryRunResult(bill, vs, ss, posts))
    ELSE IF ~credentials THEN Ret(w, None)
    ELSE ThreadSent(w, SendPosts(w, posts, 1, None, None, fault), bill, vs, ss, posts,
                    fault)

ThreadOfRows(w, bill, vs, ss, dry_run, fault) ==
    PublishThreadOf(w, bill, vs, ss, ThreadPosts(bill, vs, ss), dry_run, fault)

\* publish_bill_thread(bill, dry_run)
publish_bill_thread(w, bill, dry_run, fault) ==
    ThreadOfRows([w EXCEPT !.raised = FALSE], bill,
                 VotesOfBill(w, BillStrId(bill)), SpeechesOfBill(w, BillStrId(bill)),
                 dry_run, fault)

\* publish_thread: posts as the loop sees them, enumerate's i == 0 first
TextPosts(texts) ==
    [i \in 1..Len(texts) |->
        [post_type |-> IF i = 1 THEN "first" ELSE "later", text |-> texts[i],
         item |-> None]]

CountWith(texts, word) == Cardinality({i \in 1..Len(texts) : Contains(texts[i], word)})

\* root_uri of publish_thread
RootUri(w0, texts) == IF texts = <<>> THEN None ELSE HeaderUri(w0)

\* session.add(digest)
WithDigest(w0, w, texts, target_date) ==
    [w EXCEPT !.digests =
        Append(@, [digest_date |-> target_date, thread_content |-> texts,
                   votes_count |-> CountWith(texts, <<"V", "O", "T", "E", "S">>),
                   bills_count |-> CountWith(texts, <<"B", "I", "L", "L", "S">>),
                   speeches_count |-> CountWith(texts, <<"S", "P", "E", "E", "C", "H", "E", "S">>),
                   published |-> TRUE, published_at |-> Now,
                   bluesky_thread_uri |-> RootUri(w0, texts)])]

\* digest_date is unique: the commit of a second digest of a date raises
DigestExists(w, target_date) ==
    \E i \in 1..Len(w.digests) : w.digests[i].digest_date = target_date

\* publish_thread after the send loop
DigestSent(w0, w, texts, target_date, fault) ==
    IF w.raised THEN Ret(w, None)
    ELSE IF DigestExists(w, target_date)
    THEN Ret([w EXCEPT !.commits = @ + 1, !.raised = TRUE], None)
    ELSE IF Commit(w, WithDigest(w0, w, texts, target_date), fault).raised
    THEN Ret(Commit(w, WithDigest(w0, w, texts, target_date), fault), None)
    ELSE Ret(Commit(w, WithDigest(w0, w, texts, target_date), fault), RootUri(w0, texts))

\* publish_thread(posts, target_date)
publish_thread(w, texts, target_date, fault) ==
    IF ~credentials THEN Ret(w, None)
    ELSE DigestSent(w, SendPosts([w EXCEPT !.raised = FALSE], TextPosts(texts), 1, None,
                                 None, fault),
                    texts, target_date, fault)

\* x is None
IsNone(x) == DOMAIN x = {}

\* stats of publish_bill_threads after one publish_bill_thread returned result
ThreadStats(stats, result) ==
    IF ~IsNone(result)
    THEN [stats EXCEPT !.bills = @ + 1,
                       !.total_votes = @ + result.votes_count,
                       !.total_speeches = @ + result.speeches_count,
                       !.threads = Append(@, result)]
    ELSE [stats EXCEPT !.errors = @ + 1]

\* for bill in bills: result = publish_bill_thread(bill, dry_run=dry_run) ...
RECURSIVE ThreadsLoop(_, _, _, _, _, _)
RECURSIVE ThreadsStep(_, _, _, _, _, _)
ThreadsLoop(w, bs, i, stats, dry_run, fault) ==
    IF i > Len(bs) THEN Ret(w, stats)
    ELSE ThreadsStep(publish_bill_thread(w, bs[i], dry_run, fault), bs, i, stats,
                     dry_run, fault)

ThreadsStep(w, bs, i, stats, dry_run, fault) ==
    ThreadsLoop(w, bs, i + 1, ThreadStats(stats, w.result), dry_run, fault)

\* bills[:max_bills] if max_bills, items_to_post[:max_items] if max_items
Limited(rows, max) == IF IntTruthy(max) THEN Slice(rows, 0, max[1]) ELSE rows

\* Bill.latest_action_date == target_date, Bill.posted.is_(False)
UnpostedBills(w, d) == RowsOf({b \in w.bills : b.latest_action_date = d /\ ~b.posted})
\* Vote.vote_date == target_date, Vote.posted.is_(False)
UnpostedVotes_All(w, d) == RowsOf({v \in w.votes : v.vote_date = d})
UnpostedVotes(w, d) == RowsOf({v \in w.votes : v.vote_date = d /\ ~v.posted})
\* FloorSpeech.speech_date == target_date, FloorSpeech.posted.is_(False)
UnpostedSpeeches(w, d) == SelectSeq(w.store, LAMBDA s : s.speech_date = d /\ ~s.posted)

NoThreads ==
    [bills |-> 0, total_votes |-> 0, total_speeches |-> 0, errors |-> 0, threads |-> <<>>]

\* publish_bill_threads(target_date, max_bills, dry_run)
publish_bill_threads(w, d, max_bills, dry_run, fault) ==
    ThreadsLoop(w, Limited(UnpostedBills(w, d), max_bills), 1, NoThreads, dry_run, fault)

\* items_to_post: (item_type, item)
Items(item_type, rows) ==
    [i \in 1..Len(rows) |-> [item_type |-> item_type, item |-> rows[i]]]

ItemsToPost(w, d) ==
    Items("vote", UnpostedVotes(w, d)) \o Items("bill", UnpostedBills(w, d))
        \o Items("speech", UnpostedSpeeches(w, d))

\* publish_vote, publish_bill or publish_speech of an item
PublishItem(w, it, fault) ==
    IF it.item_type = "vote" THEN publish_vote(w, it.item, fault)
    ELSE IF it.item_type = "bill" THEN publish_bill(w, it.item, fault)
    ELSE publish_speech(w, it.item, fault)

\* the counter of stats one result adds to
StatOf(item_type, result) ==
    IF IsNone(result) THEN "errors"
    ELSE IF item_type = "vote" THEN (IF result = <<"s", "k", "i", "p", "p", "e", "d">> THEN "skipped" ELSE "votes")
    ELSE IF item_type = "bill" THEN "bills"
    ELSE "speeches"

\* for item_type, item in items_to_post: ...
RECURSIVE ItemsLoop(_, _, _, _, _)
RECURSIVE ItemsStep(_, _, _, _, _)
ItemsLoop(w, items, i, stats, fault) ==
    IF i > Len(items) THEN Ret(w, stats)
    ELSE ItemsStep(PublishItem(w, items[i], fault), items, i, stats, fault)

ItemsStep(w, items, i, stats, fault) ==
    ItemsLoop(w, items, i + 1,
              [stats EXCEPT ![StatOf(items[i].item_type, w.result)] = @ + 1], fault)

NoItems == [votes |-> 0, bills |-> 0, speeches |-> 0, skipped |-> 0, errors |-> 0]

\* publish_daily_items(target_date, max_items)
publish_daily_items(w, d, max_items, fault) ==
    ItemsLoop(w, Limited(ItemsToPost(w, d), max_items), 1, NoItems, fault)

(***************************************************************************)
(* The runs.                                                               *)
(***************************************************************************)

\* a call returns: the tables and the posts it leaves, the value it returned
Returns(w, call) ==
    /\ votes' = w.votes
    /\ bills' = w.bills
    /\ store' = w.store
    /\ bill_threads' = w.bill_threads
    /\ digests' = w.digests
    /\ sent' = w.sent
    /\ p_result' = w.result
    /\ p_call' = call
    /\ p_runs' = p_runs + 1
    /\ UNCHANGED <<credentials, lookupVars, saveVars, fetchVars, hashSeed, detectVars,
                   buildVars>>

\* max_bills and max_items of the calls
Limits == {None, SomeInt(1)}

\* a dry run makes no call that a fault could hit
FaultsOf(dry_run) == IF dry_run THEN {NoFault} ELSE Faults

PublishVote ==
    \E v \in votes, fault \in Faults :
        /\ p_runs < MaxPublishRuns
        /\ Returns(publish_vote(World, v, fault),
                   [fn |-> "publish_vote", item |-> v.id, fault |-> fault])

PublishBill ==
    \E b \in bills, fault \in Faults :
        /\ p_runs < MaxPublishRuns
        /\ Returns(publish_bill(World, b, fault),
                   [fn |-> "publish_bill", item |-> b.id, fault |-> fault])

PublishSpeech ==
    \E i \in 1..Len(store), fault \in Faults :
        /\ p_runs < MaxPublishRuns
        /\ Returns(publish_speech(World, store[i], fault),
                   [fn |-> "publish_speech", item |-> store[i].id, fault |-> fault])

PublishDailyItems ==
    \E d \in DigestDates, max_items \in Limits, fault \in Faults :
        /\ p_runs < MaxPublishRuns
        /\ Returns(publish_daily_items(World, d, max_items, fault),
                   [fn |-> "publish_daily_items", target_date |-> d,
                    max_items |-> max_items, fault |-> fault])

PublishBillThread ==
    \E b \in bills, dry_run \in BOOLEAN : \E fault \in FaultsOf(dry_run) :
        /\ p_runs < MaxPublishRuns
        /\ Returns(publish_bill_thread(World, b, dry_run, fault),
                   [fn |-> "publish_bill_thread", item |-> b.id, dry_run |-> dry_run,
                    fault |-> fault])

PublishBillThreads ==
    \E d \in DigestDates, max_bills \in Limits, dry_run \in BOOLEAN :
      \E fault \in FaultsOf(dry_run) :
        /\ p_runs < MaxPublishRuns
        /\ Returns(publish_bill_threads(World, d, max_bills, dry_run, fault),
                   [fn |-> "publish_bill_threads", target_date |-> d,
                    max_bills |-> max_bills, dry_run |-> dry_run, fault |-> fault])

PublishThread ==
    \E d \in DigestDates, fault \in Faults :
        /\ p_runs < MaxPublishRuns
        /\ Returns(publish_thread(World, generate_daily_digest(d), d, fault),
                   [fn |-> "publish_thread", target_date |-> d, fault |-> fault])

OtherIdle ==
    /\ text = <<>> /\ chamber = "HOUSE" /\ speech_date = Jan3 /\ hashSeed = 0
    /\ pc = "idle" /\ speeches = <<>> /\ built = <<>> /\ prev = <<>> /\ runs = 0
    /\ d_text = <<>> /\ d_title = None /\ d_pc = "idle" /\ d_refs = <<>>
    /\ LookupIdle /\ SaveIdle /\ FetchIdle

NothingPublished ==
    /\ bill_threads = <<>> /\ digests = <<>> /\ sent = <<>>
    /\ p_call = <<>> /\ p_result = <<>> /\ p_runs = 0

\* the stored rows of the item runs
ItemVotes ==
    {NewVote(1, Jan3, "PASSED", None, HR2988, None, OnPassage, SomeInt(218), SomeInt(210)),
     NewVote(2, Jan3, "PASSED", None, None, None, None, SomeInt(3), SomeInt(2))}
ItemBills ==
    {NewBill(1, 119, <<"h", "r">>, 2988, <<"A", " ", "b", "i", "l", "l">>, <<"S", "h", "o", "r", "t">>, None, <<"R", "e", "f", "e", "r", "r", "e", "d">>, Jan3)}
ItemSpeeches ==
    <<StoredSpeech(1, Jan3, MrSmithOhio, None, FloorTopicA, None, HR2988)>>

InitPublish ==
    /\ OtherIdle /\ NothingPublished
    /\ votes \in {ItemVotes, {v \in ItemVotes : v.id = 2}}
    /\ bills = ItemBills
    /\ store = ItemSpeeches
    /\ credentials \in BOOLEAN

NextPublish ==
    PublishVote \/ PublishBill \/ PublishSpeech \/ PublishDailyItems \/ PublishBillThread

SpecPublish == InitPublish /\ [][NextPublish]_vars

\* the stored rows of the thread runs
ThreadVotes ==
    {NewVote(1, Jan3, "FAILED", None, HR2988, None, <<"O", "n", " ", "M", "o", "t", "i", "o", "n", " ", "t", "o", " ", "R", "e", "c", "o", "m", "m", "i", "t">>,
             SomeInt(200), SomeInt(220)),
     NewVote(2, Jan3, "AGREED_TO", <<"R", "o", "e">>, HR2988, None, <<"O", "n", " ", "t", "h", "e", " ", "A", "m", "e", "n", "d", "m", "e", "n", "t">>,
             SomeInt(1), SomeInt(1)),
     NewVote(3, Dec19, "PASSED", None, HR2988, None, OnPassage,
             SomeInt(218), SomeInt(210)),
     NewVote(4, Jan3, "PASSED", None, <<"S", "9">>, None, OnPassage, None, None)}
ThreadBills ==
    {NewBill(1, 119, <<"h", "r">>, 2988, <<"A", " ", "b", "i", "l", "l">>, <<"S", "h", "o", "r", "t">>, None, <<"R", "e", "f", "e", "r", "r", "e", "d">>, Jan3),
     NewBill(2, 119, <<"s">>, 4, <<"A", "n", "o", "t", "h", "e", "r">>, None, <<"S", "u", "m">>, None, Jan3)}
ThreadSpeeches ==
    << StoredSpeech(1, Dec19, MrSmithOhio, None, FloorTopicA, None, HR2988),
       StoredSpeech(2, Dec19, MsLEE, <<"S", "u", "m">>, None, None, HR2988),
       StoredSpeech(3, Dec19, MsLEE, None, None, <<"I", " ", "r", "i", "s", "e", ".">>, HR2988),
       StoredSpeech(4, Jan3, MsLEE, None, None, <<"I", " ", "r", "i", "s", "e", ".">>, <<"S", "9">>),
       StoredSpeech(5, Jan3, MrSmithOhio, None, FloorTopicA, None, HR2988),
       StoredSpeech(6, Jan3, MsLEE, None, FloorTopicA, None, HR2988),
       StoredSpeech(7, Jan3, None, None, FloorTopicA, None, HR2988) >>

InitThread ==
    /\ OtherIdle /\ NothingPublished
    /\ \/ votes = ThreadVotes /\ store = ThreadSpeeches
       \/ votes = {v \in ThreadVotes : v.id = 4} /\ store = SubSeq(ThreadSpeeches, 1, 4)
    /\ bills = ThreadBills
    /\ credentials \in BOOLEAN

NextThread == PublishBillThread \/ PublishBillThreads \/ PublishThread

SpecThread == InitThread /\ [][NextThread]_vars

(***************************************************************************)
(* Properties of the published posts.                                      *)
(***************************************************************************)

\* the posts the step sent
NewPosts == SubSeq(sent', Len(sent) + 1, Len(sent'))

DryRunStep ==
    p_call'.fn \in {"publish_bill_thread", "publish_bill_threads"} /\ p_call'.dry_run

\* C22: a dry run of publish_bill_thread or publish_bill_threads returns the
\* thread content and publishes nothing: no post is sent, no BillThread row is
\* created, no bill, vote or speech changes (posted, post URI, posted_at), and
\* the bills selected as unposted are the same afterwards.
C22_DryRunChangesNothing ==
    [][DryRunStep =>
        /\ sent' = sent
        /\ bill_threads' = bill_threads
        /\ votes' = votes /\ bills' = bills /\ store' = store
        /\ \A d \in DigestDates :
               {b \in bills' : b.latest_action_date = d /\ ~b.posted}
                   = {b \in bills : b.latest_action_date = d /\ ~b.posted}
        /\ (p_call'.fn = "publish_bill_thread" =>
               /\ "posts" \in DOMAIN p_result'
               /\ Len(p_result'.posts) >= 1
               /\ p_result'.posts[1][1] = "header")
        /\ (p_call'.fn = "publish_bill_threads" =>
               /\ p_result'.errors = 0
               /\ p_result'.bills = Len(p_result'.threads)
               /\ \A k \in 1..Len(p_result'.threads) :
                      /\ "posts" \in DOMAIN p_result'.threads[k]
                      /\ p_result'.threads[k].posts[1][1] = "header")]_vars

\* a dry run of publish_bill_threads, with credentials configured, returned
\* the threads of two unposted bills, one of them with votes and speeches
C22_Witness ==
    /\ p_call # <<>> /\ p_call.fn = "publish_bill_threads" /\ p_call.dry_run
    /\ credentials
    /\ Len(p_result.threads) = 2
    /\ \E k \in 1..2 : Len(p_result.threads[k].posts) > 5
    /\ \A b \in bills : ~b.posted
    /\ sent = <<>>

TextsOf(posts) == [k \in 1..Len(posts) |-> posts[k].text]

\* the texts of the thread_posts publish_bill_thread builds for a bill
ThreadTexts(w, bill) ==
    TextsOf(ThreadPosts(bill, VotesOfBill(w, BillStrId(bill)),
                        SpeechesOfBill(w, BillStrId(bill))))

\* the list of texts a publish_thread or publish_bill_thread step is to send
PostsOfStep ==
    IF p_call'.fn = "publish_thread" THEN generate_daily_digest(p_call'.target_date)
    ELSE ThreadTexts(World, CHOOSE b \in bills : b.id = p_call'.item)

\* C24: publish_thread and publish_bill_thread send the posts in list order,
\* the first without a reply reference, every later one as a reply whose root
\* is the first post of the thread and whose parent is the post sent just
\* before it.
C24_RepliesChained ==
    [][p_call'.fn \in {"publish_thread", "publish_bill_thread"} =>
        /\ Len(NewPosts) <= Len(PostsOfStep)
        /\ \A k \in 1..Len(NewPosts) :
               /\ NewPosts[k].text = PostsOfStep[k]
               /\ (k = 1 => NewPosts[k].reply_to = None)
               /\ (k > 1 => NewPosts[k].reply_to =
                                [root |-> SomeInt(Len(sent) + 1),
                                 parent |-> SomeInt(Len(sent) + k - 1)])]_vars

\* a bill thread of at least four posts was published after an earlier thread
C24_Witness ==
    /\ p_call # <<>> /\ p_call.fn = "publish_bill_thread" /\ ~p_call.dry_run
    /\ ~IsNone(p_result)
    /\ p_result.total_posts >= 4
    /\ Len(sent) > p_result.total_posts
    /\ sent[Len(sent)].reply_to.parent # sent[Len(sent)].reply_to.root

\* the bill of the last publish_bill_thread call
CalledBill == CHOOSE b \in bills : b.id = p_call.item
VotesFor(b) == {v \in votes : v.bill_id = BillStrId(b)}
SpeechesFor(b) == {i \in 1..Len(store) : store[i].related_bill_id = BillStrId(b)}
AtMostFive(n) == IF n > 5 THEN 5 ELSE n
\* the posts of the thread the call published, the last total_posts of sent
Published(k) == sent[Len(sent) - p_result.total_posts + k]

\* C25: the thread of a bill is one header, then one reply for every vote
\* whose bill_id is the bill's id, the votes whose question contains "Passage"
\* before all others, then replies for at most 5 of the speeches whose
\* related_bill_id is the bill's id; it has 1 + votes + min(speeches, 5) posts.
C25_ThreadShape ==
    (p_call # <<>> /\ p_call.fn = "publish_bill_thread" /\ ~IsNone(p_result)) =>
        IF p_call.dry_run
        THEN /\ Len(p_result.posts) = 1 + Cardinality(VotesFor(CalledBill))
                    + AtMostFive(Cardinality(SpeechesFor(CalledBill)))
             /\ \A k \in 1..Len(p_result.posts) :
                    p_result.posts[k][1] =
                        IF k = 1 THEN "header"
                        ELSE IF k <= 1 + Cardinality(VotesFor(CalledBill)) THEN "vote"
                        ELSE "speech"
        ELSE /\ p_result.total_posts = 1 + Cardinality(VotesFor(CalledBill))
                    + AtMostFive(Cardinality(SpeechesFor(CalledBill)))
             /\ Published(1).post_type = "header"
             /\ \A k \in 2..p_result.total_posts : Published(k).post_type # "header"
             /\ \A v \in VotesFor(CalledBill) :
                    Cardinality({k \in 2..p_result.total_posts :
                        Published(k).post_type = "vote" /\ Published(k).item = v.id}) = 1
             /\ \A k \in 2..p_result.total_posts :
                    /\ Published(k).post_type = "vote" =>
                           \E v \in VotesFor(CalledBill) : v.id = Published(k).item
                    /\ Published(k).post_type = "speech" =>
                           \E i \in SpeechesFor(CalledBill) : store[i].id = Published(k).item
             /\ \A j, k \in 2..p_result.total_posts :
                    /\ (Published(j).post_type = "vote" /\ Published(k).post_type = "speech")
                           => j < k
                    /\ (Published(j).post_type = "speech" /\ Published(k).post_type = "speech"
                        /\ j # k) => Published(j).item # Published(k).item
                    /\ (/\ Published(j).post_type = "vote"
                        /\ Published(k).post_type = "vote"
                        /\ Contains((CHOOSE v \in votes : v.id = Published(j).item).question,
                                    <<"P","a","s","s","a","g","e">>)
                        /\ ~Contains((CHOOSE v \in votes : v.id = Published(k).item).question,
                                     <<"P","a","s","s","a","g","e">>))
                           => j < k

\* a published thread of nine posts: three votes, the passage vote older than
\* the others, and five of six speeches
C25_Witness ==
    /\ p_call # <<>> /\ p_call.fn = "publish_bill_thread" /\ ~p_call.dry_run
    /\ ~IsNone(p_result)
    /\ p_result.total_posts = 9
    /\ Cardinality(VotesFor(CalledBill)) = 3
    /\ Cardinality(SpeechesFor(CalledBill)) = 6
    /\ \E v \in VotesFor(CalledBill) :
           /\ v.id = Published(2).item
           /\ \E u \in VotesFor(CalledBill) : DateKey(u.vote_date) > DateKey(v.vote_date)

\* a vote has no amendment author, bill id, description or question
NoContext(v) ==
    v.amendment_author = <<>> /\ v.bill_id = <<>> /\ v.description = <<>>
        /\ v.question = <<>>

Skipped == <<"s","k","i","p","p","e","d">>

FirstCommitRaised == p_call'.fault.kind = "commit" /\ p_call'.fault.at = 1

C28_NoItemSentTwice ==
    \A i, j \in 1..Len(sent) :
        (/\ i < j
         /\ sent[i].post_type \in {"vote", "bill", "speech"}
         /\ sent[i].post_type = sent[j].post_type)
            => sent[i].item # sent[j].item

====
